---------------------------- MODULE Spec2Model ----------------------------
(***************************************************************************)
(* Chart marshalling of lib/streamlit/elements/vega_charts.py:             *)
(*   - the text-level identifier pass (_reset_counter_pattern,             *)
(*     _stabilize_json_spec) over the serialized spec;                     *)
(*   - the chart call (_vega_lite_chart: _prepare_vega_lite_spec,          *)
(*     _marshall_chart_data, widget id);                                   *)
(*   - concurrent conversions (_convert_altair_to_vega_lite_spec).         *)
(* Each part has its own specification over the shared variables; the      *)
(* variables of the other parts stay at their idle values.                 *)
(***************************************************************************)
EXTENDS Integers, Sequences, FiniteSets, TLC

VARIABLES
    \* ---- text-level pass (SpecText) ----
    chart,        \* identifier tokens of the serialized chart, numbered from 1 in construction order
    base,         \* value of the upstream counters when the behaviour starts
    alt_counter,  \* the upstream counters of the process, per prefix
    dumped,       \* json.dumps(spec) of each evaluation so far
    emitted,      \* vega_lite_proto.spec of each evaluation so far
    replayed,     \* _stabilize_json_spec applied again to the last emitted text
    \* ---- chart call (SpecExtract, SpecChart) ----
    args,         \* arguments of the call of _vega_lite_chart
    pc,           \* position of the call in _vega_lite_chart
    spec,         \* local variable spec
    aliased,      \* whether spec is still the caller's own dict object
    caller_spec,  \* the caller's dict object
    data,         \* local variable data
    proto,        \* vega_lite_proto
    error,        \* the exception raised by the call, "" when none
    checks,       \* the legality checks the call has invoked, in order
    registered,   \* widgets registered by register_widget, in order
    enqueued,     \* messages handed to self.dg._enqueue, in order
    result,       \* what the call returned, "" while it has not
    prev,         \* the finished first call of the script, once it is run again
    \* ---- concurrent conversions (SpecConv) ----
    conv,         \* each thread's call of _convert_altair_to_vega_lite_spec
    alt,          \* the charting library's registries, one per process
    _ALTAIR_SERIALIZATION_LOCK,  \* the thread holding the lock, 0 when free
    \* ---- selection state (SpecSerde) ----
    selection_state,  \* <<s>>: the selection state handed to serialize
    ui_value,         \* the wire value: <<>> for None, <<text>> for a text
    deserialized,     \* what deserialize returned or raised
    serde_pc,         \* "state", "wire", "done"; "idle" outside SpecSerde
    \* ---- tree-level pass (SpecTree) ----
    chart_dict,   \* the chart dict handed to _stabilize_spec, changed in place
    given,        \* the chart dict as it was before the first pass
    passes,       \* after each pass so far: the chart dict and the pass's stable_ids
    \* ---- pages (SpecPages) ----
    _cached_pages,      \* PagesManager._cached_pages: 0 for None, else the pages object
    pages_built,        \* pages objects built so far; the k-th built object is k
    _on_pages_changed,  \* number of times the pages-changed signal was sent
    pages_calls,        \* the calls made on the manager so far, with what they returned
    script_query,       \* the arguments of get_initial_active_script
    active_script       \* <<>> before get_initial_active_script returns, then <<r>>:
                        \* r is <<>> for None and <<page>> for a page

textVars == <<chart, base, alt_counter, dumped, emitted, replayed>>
callOut == <<checks, registered, enqueued, result, prev>>
callVars == <<args, pc, spec, aliased, caller_spec, data, proto, error, callOut>>
convVars == <<conv, alt, _ALTAIR_SERIALIZATION_LOCK>>
serdeVars == <<selection_state, ui_value, deserialized, serde_pc>>
treeVars == <<chart_dict, given, passes>>
pagesVars == <<_cached_pages, pages_built, _on_pages_changed, pages_calls,
               script_query, active_script>>
vars == <<textVars, callVars, convVars, serdeVars, treeVars, pagesVars>>
nonTextVars == <<callVars, convVars, serdeVars, treeVars, pagesVars>>
nonCallVars == <<textVars, convVars, serdeVars, treeVars, pagesVars>>
nonConvVars == <<textVars, callVars, serdeVars, treeVars, pagesVars>>
nonSerdeVars == <<textVars, callVars, convVars, treeVars, pagesVars>>
nonTreeVars == <<textVars, callVars, convVars, serdeVars, pagesVars>>
nonPagesVars == <<textVars, callVars, convVars, serdeVars, treeVars>>

(***************************************************************************)
(* Bounds of the model.                                                    *)
(***************************************************************************)
MaxLen == 3        \* quoted strings in one serialized spec (SpecText)
MaxNum == 10       \* largest suffix of a view_ identifier (SpecText)
MaxParamNum == 1   \* largest suffix of a param_ identifier (SpecText)
MaxIds == 2        \* identifiers of one prefix a rerun chart constructs
MaxRefs == 2       \* quoted strings in the serialized spec of a rerun chart
MaxBase == 9       \* upstream counter value at the first evaluation
MaxShift == 1      \* advance of an upstream counter caused by other charts
MaxEvals == 2      \* evaluations (script runs) of the chart call
MaxDatasets == 2   \* entries of a spec's datasets mapping
MaxMembers == 1    \* sub-charts of a layer / hconcat / vconcat
MaxThreads == 2    \* script threads converting a chart at the same time
MaxTables == 2     \* tables drawn by the chart of one thread
MaxItems == 2      \* members of a list in a selection state

Prefixes == {"param_", "view_"}
NoText == <<[pre |-> "none", digits |-> <<>>]>>

Min(a, b) == IF a < b THEN a ELSE b

(***************************************************************************)
(* Text.  The serialized spec is modelled by its quoted strings, in order: *)
(* a token [pre, digits] is the JSON string "<pre><digits>".  A match of   *)
(* "prefix\d+" includes both quotes, so it is always one whole token.      *)
(***************************************************************************)

\* Decimal formatting of a counter, as the f-string does it.
RECURSIVE Str(_)
Str(n) == IF n < 10 THEN <<n>> ELSE Str(n \div 10) \o <<n % 10>>

\* Code point at position i of the matched text after the prefix: a digit,
\* or the closing quote that ends the match.
CharAt(ds, i) == IF i <= Len(ds) THEN 48 + ds[i] ELSE 34

\* A mutant of StrLess: the matches ordered by numeric value.
NumericLess(a, b) ==
    \/ Len(a) < Len(b)
    \/ /\ Len(a) = Len(b)
       /\ \E i \in 1..Len(a) :
            /\ a[i] < b[i]
            /\ \A j \in 1..(i - 1) : a[j] = b[j]

\* Python's str "<" on two matches of one prefix (code point order).
StrLess(a, b) ==
    \E i \in 1..(Min(Len(a), Len(b)) + 1) :
        /\ CharAt(a, i) < CharAt(b, i)
        /\ \A j \in 1..(i - 1) : CharAt(a, j) = CharAt(b, j)

\* pattern.findall(vega_spec), as a set: the digits of every match.
Findall(prefix, vega_spec) ==
    {vega_spec[i].digits : i \in {j \in 1..Len(vega_spec) : vega_spec[j].pre = prefix}}

\* sorted(set(...))
RECURSIVE Sorted(_)
Sorted(S) ==
    IF S = {} THEN <<>>
    ELSE LET m == CHOOSE x \in S : \A y \in S : x = y \/ StrLess(x, y)
         IN  <<m>> \o Sorted(S \ {m})

\* vega_spec.replace(match, f'"{prefix}{counter}"'): every occurrence.
StrReplace(vega_spec, prefix, old, new) ==
    [i \in 1..Len(vega_spec) |->
        IF vega_spec[i].pre = prefix /\ vega_spec[i].digits = old
        THEN [pre |-> prefix, digits |-> new]
        ELSE vega_spec[i]]

\* The for loop over enumerate(matches, start=1): one replace after another.
RECURSIVE ReplaceLoop(_, _, _, _)
ReplaceLoop(prefix, vega_spec, matches, counter) ==
    IF counter > Len(matches) THEN vega_spec
    ELSE ReplaceLoop(prefix,
                     StrReplace(vega_spec, prefix, matches[counter], Str(counter)),
                     matches, counter + 1)

_reset_counter_pattern(prefix, vega_spec) ==
    ReplaceLoop(prefix, vega_spec, Sorted(Findall(prefix, vega_spec)), 1)

_stabilize_json_spec(vega_spec) ==
    _reset_counter_pattern("view_", _reset_counter_pattern("param_", vega_spec))

\* json.dumps(spec) of a chart whose identifiers the upstream library named
\* from its counters: suffix = counter value + position in construction order.
Dumps(c, counter) ==
    [i \in 1..Len(c) |->
        IF c[i].pre \in Prefixes
        THEN [pre |-> c[i].pre, digits |-> Str(c[i].n + counter[c[i].pre])]
        ELSE [pre |-> c[i].pre, digits |-> <<>>]]

\* Identifiers of one prefix the chart constructs on each evaluation.
Constructed(c, prefix) ==
    Cardinality({c[i].n : i \in {j \in 1..Len(c) : c[j].pre = prefix}})

ChartTokens ==
    {[pre |-> "view_", n |-> k] : k \in 1..MaxNum}
    \cup {[pre |-> "param_", n |-> k] : k \in 1..MaxParamNum}
    \cup {[pre |-> "mark", n |-> 0]}

\* Serialized specs handed to the text pass.
Charts == UNION {[1..l -> ChartTokens] : l \in 1..MaxLen}

\* Charts of a script that is run again: a few identifiers, referenced
\* MaxRefs times at most.
RerunTokens ==
    {[pre |-> p, n |-> k] : p \in Prefixes, k \in 1..MaxIds}
    \cup {[pre |-> "mark", n |-> 0]}

RerunCharts == UNION {[1..l -> RerunTokens] : l \in 1..MaxRefs}

\* Another chart of the process is constructed between two evaluations: the
\* upstream counter of one prefix advances.
UpstreamAdvance ==
    /\ emitted # <<>>
    /\ Len(emitted) < MaxEvals
    /\ \E p \in Prefixes :
         /\ alt_counter[p] < base + Len(emitted) * Constructed(chart, p) + MaxShift
         /\ alt_counter' = [alt_counter EXCEPT ![p] = @ + 1]
    /\ UNCHANGED <<chart, base, dumped, emitted, replayed>>
    /\ UNCHANGED nonTextVars

\* One evaluation of the chart call: the chart is constructed (consuming
\* counters), serialized, and the text pass is applied to the text;
\* vega_lite_proto.spec is the result.
Evaluate ==
    /\ Len(emitted) < MaxEvals
    /\ LET text == Dumps(chart, alt_counter)
       IN  /\ dumped' = Append(dumped, text)
           /\ emitted' = Append(emitted, _stabilize_json_spec(text))
    /\ alt_counter' = [p \in Prefixes |-> alt_counter[p] + Constructed(chart, p)]
    /\ replayed' = NoText
    /\ UNCHANGED <<chart, base>>
    /\ UNCHANGED nonTextVars

\* The text pass applied to one serialized spec.
Stabilize ==
    /\ emitted = <<>>
    /\ Evaluate

\* The text pass replayed over its own output.
Replay ==
    /\ emitted # <<>>
    /\ replayed = NoText
    /\ replayed' = _stabilize_json_spec(emitted[Len(emitted)])
    /\ UNCHANGED <<chart, base, alt_counter, dumped, emitted>>
    /\ UNCHANGED nonTextVars

(***************************************************************************)
(* The chart call.  A dict is a function from its keys to its values.  A   *)
(* payload (a table, bytes, None) is a record [enc, of]: `of` names the    *)
(* table, enc counts how often the Arrow codec was applied to it (a table  *)
(* has enc 0, its bytes enc 1); None is [enc |-> 0, of |-> "none"].        *)
(***************************************************************************)
EmptyDict == [k \in {} |-> ""]
None == [enc |-> 0, of |-> "none"]
Table(t) == [enc |-> 0, of |-> t]
IsBytes(v) == v.enc >= 1
\* The default of a bytes field of the message: b"".
EmptyBytes == [enc |-> 1, of |-> ""]

Del(d, k) == [x \in DOMAIN d \ {k} |-> d[x]]
Put(d, k, v) == (k :> v) @@ d

\* The value of a spec's `data` key: a dict (with its keys, its `values`
\* entry and its `name` entry) or any other value.
DataValue(v) == [kind |-> "value", keys |-> {}, values |-> v, name |-> ""]
DataDict(K, v, n) == [kind |-> "dict", keys |-> K, values |-> v, name |-> n]

_CHANNELS ==
    {"x", "y", "x2", "y2", "xError", "xError2", "yError", "yError2",
     "longitude", "latitude", "color", "opacity", "fillOpacity",
     "strokeOpacity", "strokeWidth", "size", "shape", "text", "tooltip",
     "href", "key", "order", "detail", "facet", "row", "column"}

\* dicttools.unflatten(kwargs, _CHANNELS) for keyword names without "_": a
\* channel name is nested under `encoding`, any other name stays on top.
Unflatten(kwargs) ==
    LET enc == DOMAIN kwargs \cap _CHANNELS
        top == DOMAIN kwargs \ _CHANNELS
    IN  [k \in top |-> kwargs[k]]
        @@ (IF enc = {} THEN EmptyDict ELSE ("encoding" :> [k \in enc |-> kwargs[k]]))

\* Lines 144-155: the dict that _prepare_vega_lite_spec goes on with.
PrepareMerged(spec_is_none, s, kwargs) ==
    LET s0 == IF spec_is_none THEN EmptyDict ELSE s
    IN  IF DOMAIN kwargs # {} THEN Unflatten(kwargs) @@ s0 ELSE s0

\* A mutant of PrepareRaises: the keyword arguments are not looked at.
PrepareRaisesIgnoringKwargs(spec_is_none, s, kwargs) ==
    spec_is_none \/ DOMAIN s = {}

PrepareRaises(spec_is_none, s, kwargs) ==
    DOMAIN PrepareMerged(spec_is_none, s, kwargs) = {}

Autosize(type) == [type |-> type, contains |-> "padding"]

\* A mutant of _prepare_vega_lite_spec: fit-x for every chart drawn at
\* container width.
PrepareFitXAtContainerWidth(spec_is_none, s, use_container_width, kwargs) ==
    LET m == PrepareMerged(spec_is_none, s, kwargs)
    IN  IF "autosize" \notin DOMAIN m
        THEN IF use_container_width
             THEN Put(m, "autosize", Autosize("fit-x"))
             ELSE Put(m, "autosize", Autosize("fit"))
        ELSE m

\* The dict _prepare_vega_lite_spec returns (when it does not raise).
_prepare_vega_lite_spec(spec_is_none, s, use_container_width, kwargs) ==
    LET m == PrepareMerged(spec_is_none, s, kwargs)
    IN  IF "autosize" \notin DOMAIN m
        THEN IF "vconcat" \in DOMAIN m /\ use_container_width
             THEN Put(m, "autosize", Autosize("fit-x"))
             ELSE Put(m, "autosize", Autosize("fit"))
        ELSE m

\* The Arrow codec, opaque: one more encoding of the same table.
_serialize_data(v) == [enc |-> v.enc + 1, of |-> v.of]

FreshProto ==
    [spec |-> <<>>, use_container_width |-> FALSE, theme |-> "",
     is_select_enabled |-> FALSE, form_id |-> "", id |-> <<>>,
     data |-> EmptyBytes, datasets |-> <<>>]

\* A key of a dict that need not be a string: its type and its text form.
StrKey(text) == [type |-> "str", text |-> text]
IntKey(text) == [type |-> "int", text |-> text]

\* str(key), line 197.
PyStr(key) == key.text

\* A mutant of DatasetEntries: every payload goes through the codec.
DatasetEntriesAlwaysEncode(datasets) ==
    [i \in 1..Len(datasets) |->
        [name |-> PyStr(datasets[i].key),
         has_name |-> TRUE,
         data |-> _serialize_data(datasets[i].value)]]

\* Lines 194-206: the dataset entries added for spec["datasets"], in order.
DatasetEntries(datasets) ==
    [i \in 1..Len(datasets) |->
        [name |-> PyStr(datasets[i].key),
         has_name |-> TRUE,
         data |-> IF IsBytes(datasets[i].value)
                  THEN datasets[i].value
                  ELSE _serialize_data(datasets[i].value)]]

\* A mutant of Collides: the name is looked up in the `data` entry.
CollidesWithDataName(p, s) ==
    \E i \in 1..Len(p.datasets) :
        /\ "data" \in DOMAIN s
        /\ s["data"].kind = "dict"
        /\ "name" \in s["data"].keys
        /\ s["data"].name = p.datasets[i].name

\* Lines 208-212: some dataset of the message is named like a key of spec.
Collides(p, s) ==
    \E i \in 1..Len(p.datasets) : p.datasets[i].name \in DOMAIN s

\* A mutant of ResolveData: a `data` dict is always taken as the payload.
ResolveDataAnyDict(s, d) ==
    IF "data" \in DOMAIN s
    THEN [spec |-> Del(s, "data"), data |-> s["data"].values]
    ELSE [spec |-> s, data |-> d]

\* A mutant of _marshall_chart_data's result: the inline payload is taken
\* but the `data` key is left in the spec.
ResolveDataKeepKey(s, d) ==
    IF "data" \in DOMAIN s /\ (s["data"].kind # "dict" \/ "values" \in s["data"].keys)
    THEN [spec |-> s, data |-> s["data"].values]
    ELSE [spec |-> s, data |-> d]

\* Lines 219-228: the top-level `data` key.
ResolveData(s, d) ==
    IF "data" \in DOMAIN s
    THEN IF s["data"].kind = "dict"
         THEN IF "values" \in s["data"].keys
              THEN [spec |-> Del(s, "data"), data |-> s["data"].values]
              ELSE [spec |-> s, data |-> d]
         ELSE [spec |-> Del(s, "data"), data |-> s["data"].values]
    ELSE [spec |-> s, data |-> d]

\* _marshall_chart_data(proto, spec, data): what it leaves in proto, spec
\* and data, and whether it raised.
_marshall_chart_data(p, s, d) ==
    LET s1 == IF "datasets" \in DOMAIN s THEN Del(s, "datasets") ELSE s
        p1 == IF "datasets" \in DOMAIN s
              THEN [p EXCEPT !.datasets = @ \o DatasetEntries(s["datasets"])]
              ELSE p
        r  == ResolveData(s1, d)
    IN  IF Collides(p1, s1)
        THEN [raised |-> TRUE, proto |-> p1, spec |-> s1, data |-> d]
        ELSE [raised |-> FALSE,
              proto |-> IF r.data # None
                        THEN [p1 EXCEPT !.data = _serialize_data(r.data)]
                        ELSE p1,
              spec |-> r.spec,
              data |-> r.data]

\* Lines 1334-1336: a dict in the data position, with no spec, is the spec.
LocalSpecIsNone(a) == a.mapping_as = "absent"
LocalData(a) == IF a.mapping_as = "data" THEN None ELSE a.data

\* A mutant of CallerSees: the dict the call works on is the caller's object
\* (the spec handed on as it is instead of dict(spec)).
CallerSeesEveryWrite(new) == new

\* What a write to the dict `spec` does to the caller's object.
CallerSees(new) == IF aliased THEN new ELSE caller_spec

\* Line 1340.
Prepare ==
    /\ pc = "prepare"
    /\ IF PrepareRaises(LocalSpecIsNone(args), spec, args.kwargs)
       THEN /\ pc' = "raised"
            /\ error' = "empty spec"
            /\ UNCHANGED <<spec, aliased, caller_spec>>
       ELSE /\ pc' = "marshall"
            /\ spec' = _prepare_vega_lite_spec(LocalSpecIsNone(args), spec,
                                               args.use_container_width, args.kwargs)
            /\ aliased' = FALSE
            /\ UNCHANGED <<error, caller_spec>>
    /\ UNCHANGED <<args, data, proto, callOut>>
    /\ UNCHANGED nonCallVars

\* Line 1341.
Marshall ==
    /\ pc = "marshall"
    /\ LET r == _marshall_chart_data(proto, spec, data)
       IN  /\ proto' = r.proto
           /\ spec' = r.spec
           /\ caller_spec' = CallerSees(r.spec)
           /\ data' = r.data
           /\ pc' = IF r.raised THEN "raised" ELSE "serialize"
           /\ error' = IF r.raised THEN "dataset collision" ELSE error
    /\ UNCHANGED <<args, aliased, callOut>>
    /\ UNCHANGED nonCallVars

(***************************************************************************)
(* The rest of the chart call: lines 1304-1330 before normalization and    *)
(* lines 1343-1396 after extraction.                                       *)
(***************************************************************************)
\* A quoted string of the JSON text that is no counter identifier.
Lit(s) == [pre |-> s, digits |-> <<>>]

\* A parameter of spec["params"]: its keys, its name (a quoted string), the
\* keys of its `select` dict and its views.
Param(K, name, select, views) ==
    [keys |-> K, name |-> name, select |-> select, views |-> views]

RECURSIVE DumpsDict(_, _)
\* json.dumps of a dict of strings, as its quoted strings.
DumpsDict(d, K) ==
    IF K = {} THEN <<>>
    ELSE LET k == CHOOSE x \in K : TRUE
         IN  <<Lit(k), Lit(d[k])>> \o DumpsDict(d, K \ {k})

\* json.dumps of a `data` value (an inline payload stands for its JSON form).
DumpsData(v) ==
    IF v.kind = "dict"
    THEN <<Lit("{")>>
         \o (IF "values" \in v.keys THEN <<Lit("values"), Lit(v.values.of)>> ELSE <<>>)
         \o (IF "url" \in v.keys THEN <<Lit("url"), Lit("u")>> ELSE <<>>)
         \o (IF "name" \in v.keys THEN <<Lit("name"), Lit(v.name)>> ELSE <<>>)
         \o <<Lit("}")>>
    ELSE <<Lit(v.values.of)>>

RECURSIVE DumpsMembers(_)
DumpsMembers(ms) ==
    IF ms = <<>> THEN <<>>
    ELSE <<Lit("{"), Lit("mark"), Lit(Head(ms).mark)>>
         \o (IF Head(ms).data # <<>>
             THEN <<Lit("data")>> \o DumpsData(Head(ms).data[1]) ELSE <<>>)
         \o <<Lit("}")>> \o DumpsMembers(Tail(ms))

RECURSIVE DumpsParams(_)
DumpsParams(ps) ==
    IF ps = <<>> THEN <<>>
    ELSE LET p == Head(ps)
         IN  <<Lit("{")>>
             \o (IF "name" \in p.keys THEN <<Lit("name"), p.name>> ELSE <<>>)
             \o (IF "select" \in p.keys
                 THEN <<Lit("select")>>
                      \o (IF "type" \in p.select
                          THEN <<Lit("type"), Lit("interval")>> ELSE <<>>)
                 ELSE <<>>)
             \o (IF "views" \in p.keys THEN <<Lit("views")>> \o p.views ELSE <<>>)
             \o <<Lit("}")>> \o DumpsParams(Tail(ps))

RECURSIVE DumpsDatasets(_)
DumpsDatasets(ds) ==
    IF ds = <<>> THEN <<>>
    ELSE <<Lit(PyStr(Head(ds).key)), Lit(Head(ds).value.of)>> \o DumpsDatasets(Tail(ds))

\* json.dumps of the value of a top-level key.
DumpsValue(k, v) ==
    CASE k = "mark" -> <<Lit(v)>>
      [] k = "data" -> DumpsData(v)
      [] k = "datasets" -> DumpsDatasets(v)
      [] k \in {"layer", "hconcat", "vconcat"} -> DumpsMembers(v)
      [] k = "encoding" -> DumpsDict(v, DOMAIN v)
      [] k = "params" -> DumpsParams(v)
      [] k = "autosize" -> <<Lit(v.type), Lit(v.contains)>>

KeyOrder ==
    <<"mark", "data", "datasets", "layer", "hconcat", "vconcat", "encoding",
      "params", "autosize">>

RECURSIVE DumpsKeys(_, _)
DumpsKeys(s, i) ==
    IF i > Len(KeyOrder) THEN <<>>
    ELSE (IF KeyOrder[i] \in DOMAIN s
          THEN <<Lit(KeyOrder[i])>> \o DumpsValue(KeyOrder[i], s[KeyOrder[i]])
          ELSE <<>>)
         \o DumpsKeys(s, i + 1)

\* json.dumps(spec) at line 1343, as the sequence of its quoted strings.
DumpsSpec(s) == DumpsKeys(s, 1)

\* A mutant of _check_spec_for_selections: a `select` without a `type` is
\* taken as a selection.
CheckSelectionsWithoutType(s) ==
    ~ (/\ DOMAIN s # {}
       /\ "params" \in DOMAIN s
       /\ \E i \in 1..Len(s["params"]) :
             /\ "name" \in s["params"][i].keys
             /\ "select" \in s["params"][i].keys)

\* Lines 291-308: TRUE when _check_spec_for_selections raises.
_check_spec_for_selections(s) ==
    ~ (/\ DOMAIN s # {}
       /\ "params" \in DOMAIN s
       /\ \E i \in 1..Len(s["params"]) :
             LET param == s["params"][i]
             IN  /\ "name" \in param.keys
                 /\ "select" \in param.keys
                 /\ "type" \in param.select)

\* callable(on_select)
Callable(on_select) == on_select = "callback"

\* Line 1315.
IsSelectionActivated(a) == a.on_select # "ignore"

\* Line 1314: to_key(key).
to_key(key) == key

\* A mutant of WidgetIdArgs: the theme is not handed to compute_widget_id.
WidgetIdArgsNoTheme(p, a) ==
    [element_type |-> "arrow_vega_lite_chart",
     user_key |-> to_key(a.key),
     key |-> to_key(a.key),
     vega_lite_spec |-> p.spec,
     vega_lite_data |-> p.data,
     named_datasets |-> [i \in 1..Len(p.datasets) |-> p.datasets[i].name],
     form_id |-> p.form_id,
     use_container_width |-> a.use_container_width,
     is_selection_activated |-> IsSelectionActivated(a),
     page |-> a.page]

\* Lines 1356-1370: the arguments handed to compute_widget_id.
WidgetIdArgs(p, a) ==
    [element_type |-> "arrow_vega_lite_chart",
     user_key |-> to_key(a.key),
     key |-> to_key(a.key),
     vega_lite_spec |-> p.spec,
     vega_lite_data |-> p.data,
     named_datasets |-> [i \in 1..Len(p.datasets) |-> p.datasets[i].name],
     theme |-> a.theme,
     form_id |-> p.form_id,
     use_container_width |-> a.use_container_width,
     is_selection_activated |-> IsSelectionActivated(a),
     page |-> a.page]

\* compute_widget_id: a hash of its arguments, taken as injective.
compute_widget_id(kwargs) == [hash_of |-> kwargs]

(***************************************************************************)
(* Arguments.                                                              *)
(***************************************************************************)
Tables == {Table("df1")}

\* Values of a spec's top-level `data` key.
DataValues ==
    {DataValue(t) : t \in Tables \cup {None}}
    \cup {DataDict({"values"}, t, "") : t \in Tables \cup {None}}
    \cup {DataDict({"url"}, None, ""), DataDict({"name"}, None, "foo")}

\* Items of a spec's `datasets` dict: a key with a table or with bytes.
DatasetItems ==
    {[key |-> StrKey("foo"), value |-> Table("df3")],
     [key |-> StrKey("foo"), value |-> _serialize_data(Table("df4"))],
     [key |-> StrKey("mark"), value |-> Table("df3")],
     [key |-> IntKey("1"), value |-> Table("df3")],
     [key |-> StrKey("1"), value |-> _serialize_data(Table("df4"))]}

\* A spec's `datasets` dict: its items in order, the keys distinct.
DatasetDicts ==
    {d \in UNION {[1..l -> DatasetItems] : l \in 0..MaxDatasets} :
        \A i, j \in 1..Len(d) : d[i].key = d[j].key => i = j}

\* The sub-charts of a composition key.
Members ==
    LET Member == {[mark |-> "bar", data |-> <<>>]}
                  \cup {[mark |-> "bar", data |-> <<DataDict({"values"}, Table("df5"), "")>>]}
    IN  UNION {[1..l -> Member] : l \in 1..MaxMembers}

\* Absent, or present with one of the values.
Optional(k, V) == {EmptyDict} \cup {(k :> v) : v \in V}

Compositions ==
    {EmptyDict} \cup {(k :> m) : k \in {"layer", "vconcat"}, m \in Members}

Mappings ==
    {a @@ b @@ c @@ d @@ e :
        a \in Optional("mark", {"bar"}),
        b \in Optional("data", DataValues),
        c \in Optional("datasets", DatasetDicts),
        d \in Compositions,
        e \in Optional("autosize", {[type |-> "pad", contains |-> "content"]})}

Kwargs == {EmptyDict, ("x" :> "a")}

\* The arguments that normalization and extraction read; the others at
\* their defaults.  (None is written "None" where the argument is a string;
\* form_id and page are the call's context: current_form_id(self.dg) and
\* ctx.page_script_hash.)
ExtractArgs ==
    {[mapping |-> m, mapping_as |-> w, data |-> d, kwargs |-> k,
      use_container_width |-> u, theme |-> "streamlit", key |-> "None",
      on_select |-> "ignore", form_id |-> "", page |-> "page1"] :
        m \in Mappings, w \in {"spec"}, d \in Tables \cup {None},
        k \in Kwargs, u \in BOOLEAN}
    \cup
    {[mapping |-> EmptyDict, mapping_as |-> "absent", data |-> d, kwargs |-> k,
      use_container_width |-> u, theme |-> "streamlit", key |-> "None",
      on_select |-> "ignore", form_id |-> "", page |-> "page1"] :
        d \in Tables \cup {None}, k \in Kwargs, u \in BOOLEAN}

\* The parameters of a chart spec: a named selection, a selection with a
\* generated name, a parameter that is no selection, a parameter whose
\* `select` has no `type`.
ParamLists ==
    {<<Param({"name", "select"}, Lit("brush"), {"type"}, <<>>)>>,
     <<Param({"name", "select", "views"}, [pre |-> "param_", digits |-> <<3>>],
             {"type"}, <<[pre |-> "view_", digits |-> <<7>>]>>)>>,
     <<Param({"name"}, Lit("width"), {}, <<>>)>>,
     <<Param({"name", "select"}, Lit("pick"), {}, <<>>)>>}

ChartDatasets ==
    LET e(n, t) == [key |-> StrKey(n), value |-> Table(t)]
    IN  {<<e("foo", "df3"), e("bar", "df4")>>,
         <<e("bar", "df4"), e("foo", "df3")>>,
         <<e("mark", "df3")>>}

ChartMappings ==
    {("mark" :> "bar") @@ b @@ c @@ d @@ e :
        b \in Optional("data", {DataValue(Table("df1"))}),
        c \in Optional("datasets", ChartDatasets),
        d \in Optional("vconcat", {<<[mark |-> "bar", data |-> <<>>]>>}),
        e \in Optional("params", ParamLists)}

Themes == {"streamlit", "None", "dark"}
OnSelects == {"ignore", "rerun", "callback", "always"}

\* The arguments of the first evaluation.
ChartArgs ==
    [mapping : ChartMappings, mapping_as : {"spec"}, data : {None},
     kwargs : {EmptyDict}, use_container_width : BOOLEAN, theme : Themes,
     key : {"None"}, on_select : OnSelects, form_id : {""}, page : {"page1"}]

\* The arguments of the second evaluation: those of the first, or those of
\* the first with one argument (or one key of the spec) changed.
Variations(a) ==
    {a}
    \cup {[a EXCEPT !.theme = t] : t \in Themes}
    \cup {[a EXCEPT !.on_select = o] : o \in OnSelects}
    \cup {[a EXCEPT !.use_container_width = u] : u \in BOOLEAN}
    \cup {[a EXCEPT !.form_id = f] : f \in {"", "form1"}}
    \cup {[a EXCEPT !.page = p] : p \in {"page1", "page2"}}
    \cup {[a EXCEPT !.key = k] : k \in {"None", "k1"}}
    \cup {[a EXCEPT !.data = d] : d \in Tables \cup {None}}
    \cup {[a EXCEPT !.kwargs = k] : k \in Kwargs}
    \cup {[a EXCEPT !.mapping_as = w] : w \in {"spec", "data", "absent"}}
    \cup {[a EXCEPT !.mapping = m] :
            m \in {x \in ChartMappings :
                     \E k \in {"data", "datasets", "vconcat", "params"} :
                        Del(x, k) = Del(a.mapping, k)}}

IdleText ==
    /\ chart = <<>>
    /\ base = 0
    /\ alt_counter = [p \in Prefixes |-> 0]
    /\ dumped = <<>>
    /\ emitted = <<>>
    /\ replayed = NoText

IdleOut ==
    /\ checks = <<>>
    /\ registered = <<>>
    /\ enqueued = <<>>
    /\ result = ""
    /\ prev = <<>>

IdleSerde ==
    /\ selection_state = <<>>
    /\ ui_value = <<>>
    /\ deserialized = [raised |-> "", val |-> <<>>]
    /\ serde_pc = "idle"

IdleConv ==
    /\ conv = <<>>
    /\ alt = [plugins_id |-> 0, active |-> 0, theme |-> "default"]
    /\ _ALTAIR_SERIALIZATION_LOCK = 0

NoTree == [has_params |-> FALSE, params |-> <<>>, body |-> <<>>]

IdleTree ==
    /\ chart_dict = NoTree
    /\ given = NoTree
    /\ passes = <<>>

NoQuery == [page_script_hash |-> "", page_name |-> "None"]

IdlePages ==
    /\ _cached_pages = 0
    /\ pages_built = 0
    /\ _on_pages_changed = 0
    /\ pages_calls = <<>>
    /\ script_query = NoQuery
    /\ active_script = <<>>

IdleCall ==
    /\ args = [mapping |-> EmptyDict, mapping_as |-> "absent", data |-> None,
               kwargs |-> EmptyDict, use_container_width |-> FALSE,
               theme |-> "streamlit", key |-> "None", on_select |-> "ignore",
               form_id |-> "", page |-> "page1"]
    /\ pc = "idle"
    /\ spec = EmptyDict
    /\ aliased = FALSE
    /\ caller_spec = EmptyDict
    /\ data = None
    /\ proto = FreshProto
    /\ error = ""
    /\ IdleOut

(***************************************************************************)
(* SpecText: the text pass as a function of the serialized spec.           *)
(***************************************************************************)
InitText ==
    /\ chart \in Charts
    /\ base = 0
    /\ alt_counter = [p \in Prefixes |-> 0]
    /\ dumped = <<>>
    /\ emitted = <<>>
    /\ replayed = NoText
    /\ IdleCall
    /\ IdleConv
    /\ IdleSerde
    /\ IdleTree
    /\ IdlePages

NextText == Stabilize \/ Replay

SpecText == InitText /\ [][NextText]_vars

(***************************************************************************)
(* SpecRerun: one chart call evaluated on successive script runs, while    *)
(* the upstream counters of the process advance.                           *)
(***************************************************************************)
InitRerun ==
    /\ chart \in RerunCharts
    /\ base \in 0..MaxBase
    /\ alt_counter = [p \in Prefixes |-> base]
    /\ dumped = <<>>
    /\ emitted = <<>>
    /\ replayed = NoText
    /\ IdleCall
    /\ IdleConv
    /\ IdleSerde
    /\ IdleTree
    /\ IdlePages

NextRerun == UpstreamAdvance \/ Evaluate

SpecRerun == InitRerun /\ [][NextRerun]_vars

(***************************************************************************)
(* SpecExtract: normalization and data extraction of one spec, lines       *)
(* 1340-1341 of the chart call.                                            *)
(***************************************************************************)
InitExtract ==
    /\ args \in ExtractArgs
    /\ pc = "prepare"
    /\ spec = args.mapping
    /\ aliased = TRUE
    /\ caller_spec = args.mapping
    /\ data = LocalData(args)
    /\ proto = FreshProto
    /\ error = ""
    /\ IdleOut
    /\ IdleText
    /\ IdleConv
    /\ IdleSerde
    /\ IdleTree
    /\ IdlePages

NextExtract == Prepare \/ Marshall

SpecExtract == InitExtract /\ [][NextExtract]_vars

\* Lines 1304-1312.
ValidateArgs ==
    /\ pc = "validate"
    /\ IF args.theme \notin {"streamlit", "None"}
       THEN pc' = "raised" /\ error' = "invalid theme"
       ELSE IF args.on_select \notin {"ignore", "rerun"} /\ ~Callable(args.on_select)
            THEN pc' = "raised" /\ error' = "invalid on_select"
            ELSE pc' = "legality" /\ UNCHANGED error
    /\ UNCHANGED <<args, spec, aliased, caller_spec, data, proto, callOut>>
    /\ UNCHANGED nonCallVars

\* A mutant of LegalityCheckList: the callback check is made for every mode
\* that is not "ignore".
LegalityCheckListAlwaysCallback(a) ==
    IF IsSelectionActivated(a)
    THEN <<"check_cache_replay_rules", "check_callback_rules",
           "check_session_state_rules">>
    ELSE <<>>

\* Lines 1317-1330: the checks invoked when selections are activated.
LegalityCheckList(a) ==
    IF IsSelectionActivated(a)
    THEN <<"check_cache_replay_rules">>
         \o (IF Callable(a.on_select) THEN <<"check_callback_rules">> ELSE <<>>)
         \o <<"check_session_state_rules">>
    ELSE <<>>

\* Lines 1314-1338: each check passes or raises, as its module decides; the
\* first one that raises ends the call.
LegalityChecks ==
    /\ pc = "legality"
    /\ LET l == LegalityCheckList(args)
       IN  \E n \in 0..Len(l) :
              \/ /\ n = Len(l)
                 /\ checks' = l
                 /\ pc' = "prepare"
                 /\ UNCHANGED error
              \/ /\ n < Len(l)
                 /\ checks' = SubSeq(l, 1, n + 1)
                 /\ pc' = "raised"
                 /\ error' = l[n + 1]
    /\ UNCHANGED <<args, spec, aliased, caller_spec, data, proto>>
    /\ UNCHANGED <<registered, enqueued, result, prev>>
    /\ UNCHANGED nonCallVars

\* Lines 1343-1346.
Serialize ==
    /\ pc = "serialize"
    /\ proto' = [proto EXCEPT
                    !.spec = _stabilize_json_spec(DumpsSpec(spec)),
                    !.use_container_width = args.use_container_width,
                    !.theme = IF args.theme = "None" THEN "" ELSE args.theme]
    /\ pc' = IF IsSelectionActivated(args) THEN "select" ELSE "enqueue"
    /\ UNCHANGED <<args, spec, aliased, caller_spec, data, error, callOut>>
    /\ UNCHANGED nonCallVars

\* A mutant of Select: the widget is registered before the spec is checked
\* for selections.
SelectRegisterFirst ==
    /\ pc = "select"
    /\ LET p1 == [proto EXCEPT !.is_select_enabled = TRUE,
                               !.form_id = args.form_id]
           p2 == [p1 EXCEPT !.id = <<compute_widget_id(WidgetIdArgs(p1, args))>>]
       IN  /\ registered' = Append(registered,
                  [proto |-> p2, user_key |-> to_key(args.key),
                   on_change_handler |-> Callable(args.on_select)])
           /\ IF _check_spec_for_selections(spec)
              THEN /\ pc' = "raised"
                   /\ error' = "no selections"
                   /\ UNCHANGED proto
              ELSE /\ proto' = p2
                   /\ pc' = "enqueue"
                   /\ UNCHANGED error
    /\ UNCHANGED <<args, spec, aliased, caller_spec, data>>
    /\ UNCHANGED <<checks, enqueued, result, prev>>
    /\ UNCHANGED nonCallVars

\* Lines 1348-1382.
Select ==
    /\ pc = "select"
    /\ IF _check_spec_for_selections(spec)
       THEN /\ pc' = "raised"
            /\ error' = "no selections"
            /\ UNCHANGED <<proto, registered>>
       ELSE LET p1 == [proto EXCEPT !.is_select_enabled = TRUE,
                                    !.form_id = args.form_id]
                p2 == [p1 EXCEPT !.id = <<compute_widget_id(WidgetIdArgs(p1, args))>>]
            IN  /\ proto' = p2
                /\ registered' = Append(registered,
                       [proto |-> p2, user_key |-> to_key(args.key),
                        on_change_handler |-> Callable(args.on_select)])
                /\ pc' = "enqueue"
                /\ UNCHANGED error
    /\ UNCHANGED <<args, spec, aliased, caller_spec, data>>
    /\ UNCHANGED <<checks, enqueued, result, prev>>
    /\ UNCHANGED nonCallVars

\* A mutant of Enqueue: the handle of the enqueue is returned in every mode.
EnqueueReturnsHandle ==
    /\ pc = "enqueue"
    /\ enqueued' = Append(enqueued, proto)
    /\ result' = "delta generator"
    /\ pc' = "done"
    /\ UNCHANGED <<args, spec, aliased, caller_spec, data, proto, error>>
    /\ UNCHANGED <<checks, registered, prev>>
    /\ UNCHANGED nonCallVars

\* Lines 1384-1396.
Enqueue ==
    /\ pc = "enqueue"
    /\ enqueued' = Append(enqueued, proto)
    /\ result' = IF IsSelectionActivated(args)
                 THEN "selection state" ELSE "delta generator"
    /\ pc' = "done"
    /\ UNCHANGED <<args, spec, aliased, caller_spec, data, proto, error>>
    /\ UNCHANGED <<checks, registered, prev>>
    /\ UNCHANGED nonCallVars

\* The script runs again and evaluates the call a second time.
Rerun ==
    /\ pc \in {"done", "raised"}
    /\ prev = <<>>
    /\ prev' = <<[args |-> args, proto |-> proto, error |-> error,
                  result |-> result, pc |-> pc,
                  registered |-> registered, enqueued |-> enqueued]>>
    /\ \E a \in Variations(args) :
          /\ args' = a
          /\ spec' = a.mapping
          /\ caller_spec' = a.mapping
          /\ data' = LocalData(a)
    /\ aliased' = TRUE
    /\ pc' = "validate"
    /\ proto' = FreshProto
    /\ error' = ""
    /\ checks' = <<>>
    /\ result' = ""
    /\ UNCHANGED <<registered, enqueued>>
    /\ UNCHANGED nonCallVars

(***************************************************************************)
(* SpecChart: the whole chart call, evaluated on two successive script     *)
(* runs; the second evaluation differs from the first in at most one       *)
(* argument.                                                               *)
(***************************************************************************)
InitChart ==
    /\ args \in ChartArgs
    /\ pc = "validate"
    /\ spec = args.mapping
    /\ aliased = TRUE
    /\ caller_spec = args.mapping
    /\ data = LocalData(args)
    /\ proto = FreshProto
    /\ error = ""
    /\ IdleOut
    /\ IdleText
    /\ IdleConv
    /\ IdleSerde
    /\ IdleTree
    /\ IdlePages

NextChart ==
    \/ ValidateArgs
    \/ LegalityChecks
    \/ Prepare
    \/ Marshall
    \/ Serialize
    \/ Select
    \/ Enqueue
    \/ Rerun

SpecChart == InitChart /\ [][NextChart]_vars

(***************************************************************************)
(* Claims about the text pass.                                             *)
(***************************************************************************)

\* Positions of the serialized spec holding an identifier of the prefix.
Occurrences(prefix, text) == {i \in 1..Len(text) : text[i].pre = prefix}

\* C1: two evaluations of one chart whose auto-generated identifiers differ
\* only by a constant shift of the upstream counters store byte-identical
\* spec text in the message, also when the shift crosses a digit-count
\* boundary.  (The claim as stated; the code violates it.)
C1_CrossRerunStable ==
    \A i, j \in 1..Len(emitted) : emitted[i] = emitted[j]

\* C3: the text pass renumbers densely and without collisions: per prefix the
\* N distinct identifiers of the input become exactly 1..N, and two
\* occurrences are equal in the output iff they were equal in the input.
\* (The claim as stated; the code violates it.)
C3_DenseCollisionFree ==
    \A e \in 1..Len(emitted) :
        \A p \in Prefixes :
            /\ Findall(p, emitted[e]) =
                   {Str(k) : k \in 1..Cardinality(Findall(p, dumped[e]))}
            /\ \A i, j \in Occurrences(p, dumped[e]) :
                   (emitted[e][i] = emitted[e][j]) <=> (dumped[e][i] = dumped[e][j])

\* C4: replaying the text pass over its own output changes nothing.
\* (The claim as stated; the code violates it.)
C4_TextPassIdempotent ==
    replayed # NoText => replayed = emitted[Len(emitted)]

\* The serialized spec of evaluation e has view_10 and view_2 as its only
\* view_ identifiers.
OnlyView10And2(e) == Findall("view_", dumped[e]) = {<<1, 0>>, <<2>>}

\* C5 as stated: with "view_10" and "view_2" the only view_ tokens, the text
\* pass rewrites "view_2" to "view_1" and "view_10" to "view_2".
C5_AsStated ==
    \A e \in 1..Len(emitted) :
        OnlyView10And2(e) =>
            \A i \in Occurrences("view_", dumped[e]) :
                emitted[e][i].digits =
                    IF dumped[e][i].digits = <<2>> THEN <<1>> ELSE <<2>>

\* C5 amended: with "view_10" and "view_2" the only view_ tokens, the text
\* pass rewrites "view_10" to "view_1" and leaves "view_2" as "view_2" (the
\* matches are ordered as text, and "view_10" sorts before "view_2").
C5_LexicographicOrder ==
    \A e \in 1..Len(emitted) :
        OnlyView10And2(e) =>
            \A i \in Occurrences("view_", dumped[e]) :
                emitted[e][i].digits =
                    IF dumped[e][i].digits = <<1, 0>> THEN <<1>> ELSE <<2>>

C5_Witness ==
    /\ emitted # <<>>
    /\ OnlyView10And2(1)
    /\ \E i \in 1..Len(emitted[1]) :
         emitted[1][i] = [pre |-> "view_", digits |-> <<1>>]

(***************************************************************************)
(* Claims about normalization and data extraction.                         *)
(***************************************************************************)

\* The names of the datasets of a spec's `datasets` dict.
DatasetNamesOf(s) ==
    IF "datasets" \in DOMAIN s
    THEN {PyStr(s["datasets"][i].key) : i \in 1..Len(s["datasets"])}
    ELSE {}

\* The name a `data` entry refers to, if it is a reference by name.
DataEntryNames(s) ==
    IF "data" \in DOMAIN s /\ "name" \in s["data"].keys
    THEN {s["data"].name}
    ELSE {}

ResolvedPayload(s, d) ==
    IF "data" \in DOMAIN s /\ (s["data"].kind # "dict" \/ "values" \in s["data"].keys)
    THEN s["data"].values
    ELSE d

\* C9: a `data` dict with `values` gives `values` as the payload and the key
\* is deleted; a `data` that is no dict is the payload and the key is
\* deleted; a `data` dict without `values` (a url or name reference) stays
\* as it is and gives no payload; the message's data slot is written (with
\* the codec's output) iff a payload was resolved from the spec or, failing
\* that, from the caller's argument.
C9_InlineDataResolution ==
    [][(pc = "marshall" /\ pc' = "serialize") =>
        /\ ("data" \in DOMAIN spec /\ spec["data"].kind = "dict" /\ "values" \in spec["data"].keys)
              => ("data" \notin DOMAIN spec' /\ data' = spec["data"].values)
        /\ ("data" \in DOMAIN spec /\ spec["data"].kind # "dict")
              => ("data" \notin DOMAIN spec' /\ data' = spec["data"].values)
        /\ ("data" \in DOMAIN spec /\ spec["data"].kind = "dict" /\ "values" \notin spec["data"].keys)
              => ("data" \in DOMAIN spec' /\ spec'["data"] = spec["data"] /\ data' = data)
        /\ (proto'.data # EmptyBytes) <=> (ResolvedPayload(spec, data) # None)
        /\ (ResolvedPayload(spec, data) # None)
              => proto'.data = _serialize_data(ResolvedPayload(spec, data))]_vars

C9_Witness ==
    /\ pc = "serialize"
    /\ "data" \in DOMAIN args.mapping
    /\ args.mapping["data"] = DataDict({"values"}, Table("df1"), "")
    /\ args.data = None
    /\ "data" \notin DOMAIN spec
    /\ proto.data = _serialize_data(Table("df1"))

\* A `data` value that carries a payload inline.
Inline(v) == v.kind # "dict" \/ "values" \in v.keys

CompositionKeys == {"layer", "hconcat", "vconcat"}

\* The spec holds a raw payload at its top level.
TopLevelPayload(s) ==
    \/ "datasets" \in DOMAIN s
    \/ "data" \in DOMAIN s /\ Inline(s["data"])

\* The spec holds a raw payload in a sub-chart of a composition.
NestedPayload(s) ==
    \E k \in CompositionKeys \cap DOMAIN s :
        \E i \in 1..Len(s[k]) :
            s[k][i].data # <<>> /\ Inline(s[k][i].data[1])

\* C10 as stated: after normalization and extraction the spec is non-empty
\* and holds no raw payload at any position, nested sub-charts included.
C10_AsStated ==
    pc = "serialize" =>
        /\ DOMAIN spec # {}
        /\ ~TopLevelPayload(spec)
        /\ ~NestedPayload(spec)

\* C10 amended: after normalization and extraction the spec is non-empty
\* and holds no raw payload at its top level (no `datasets`, and `data` only
\* as a reference); the sub-charts under layer / hconcat / vconcat are left
\* as the caller gave them, with their own `data`.
C10_TopLevelExtracted ==
    pc = "serialize" =>
        /\ DOMAIN spec # {}
        /\ ~TopLevelPayload(spec)
        /\ \A k \in CompositionKeys \cap DOMAIN args.mapping :
              k \in DOMAIN spec /\ spec[k] = args.mapping[k]

C10_Witness ==
    /\ pc = "serialize"
    /\ TopLevelPayload(args.mapping)
    /\ NestedPayload(args.mapping)
    /\ NestedPayload(spec)
    /\ proto.data # EmptyBytes


(***************************************************************************)
(* SpecConv: concurrent calls of _convert_altair_to_vega_lite_spec, one    *)
(* per script thread.  The registries of the charting library (its named   *)
(* data transformers, its active transformer, its active theme) belong to  *)
(* the process.  A closure is named by the thread that made it, 0 names    *)
(* the library's default transformer.                                      *)
(***************************************************************************)
Threads == 1..MaxThreads

\* The tables a thread's chart draws: its own, n of them.
ConvChart(t, n) == [i \in 1..n |-> Table(<<t, i>>)]

\* hashlib md5 of the bytes, taken as injective.
Md5(data_bytes) == [md5_of |-> data_bytes]

\* Lines 245-258: what the closure stores and what it returns.
id_transform(d) ==
    LET data_bytes == _serialize_data(d)
    IN  [stored |-> data_bytes, returned |-> [name |-> Md5(data_bytes)]]

\* Line 260: alt.data_transformers.register("id", id_transform).
Register(t) ==
    /\ conv[t].pc = "register"
    /\ alt' = [alt EXCEPT !.plugins_id = t]
    /\ conv' = [conv EXCEPT ![t].pc = "theme"]
    /\ UNCHANGED _ALTAIR_SERIALIZATION_LOCK
    /\ UNCHANGED nonConvVars

\* Line 265: enter alt.themes.enable("none"), or a null context.
EnterTheme(t) ==
    /\ conv[t].pc = "theme"
    /\ IF alt.theme = "default"
       THEN /\ alt' = [alt EXCEPT !.theme = "none"]
            /\ conv' = [conv EXCEPT ![t].pc = "transformer",
                                    ![t].saved_theme = <<alt.theme>>]
       ELSE /\ conv' = [conv EXCEPT ![t].pc = "transformer"]
            /\ UNCHANGED alt
    /\ UNCHANGED _ALTAIR_SERIALIZATION_LOCK
    /\ UNCHANGED nonConvVars

\* Line 266: enter alt.data_transformers.enable("id"): the registry's state
\* is saved, and whatever is registered as "id" becomes the active
\* transformer.
EnterTransformer(t) ==
    /\ conv[t].pc = "transformer"
    /\ conv' = [conv EXCEPT ![t].pc = "to_dict",
                            ![t].saved_transformers =
                                <<[active |-> alt.active, plugins_id |-> alt.plugins_id]>>]
    /\ alt' = [alt EXCEPT !.active = alt.plugins_id]
    /\ UNCHANGED _ALTAIR_SERIALIZATION_LOCK
    /\ UNCHANGED nonConvVars

\* Line 278, one table of altair_chart.to_dict(): the active transformer is
\* applied to it.  The default transformer leaves the rows in the dict.
ToDictTable(t) ==
    /\ conv[t].pc = "to_dict"
    /\ conv[t].i <= Len(conv[t].chart)
    /\ LET d == conv[t].chart[conv[t].i]
           c == alt.active
       IN  IF c = 0
           THEN conv' = [conv EXCEPT
                            ![t].i = @ + 1,
                            ![t].chart_dict = Append(@, [values |-> d])]
           ELSE conv' = [conv EXCEPT
                            ![t].i = @ + 1,
                            ![t].chart_dict = Append(@, id_transform(d).returned),
                            ![c].datasets = @ \cup {id_transform(d).stored}]
    /\ UNCHANGED <<alt, _ALTAIR_SERIALIZATION_LOCK>>
    /\ UNCHANGED nonConvVars

\* Line 278: altair_chart.to_dict() returns, under the theme active now.
ToDictReturn(t) ==
    /\ conv[t].pc = "to_dict"
    /\ conv[t].i > Len(conv[t].chart)
    /\ conv' = [conv EXCEPT ![t].pc = "exit_transformer",
                            ![t].theme = alt.theme]
    /\ UNCHANGED <<alt, _ALTAIR_SERIALIZATION_LOCK>>
    /\ UNCHANGED nonConvVars

\* Line 266: leave the data-transformer context, the saved state is put back.
ExitTransformer(t) ==
    /\ conv[t].pc = "exit_transformer"
    /\ alt' = [alt EXCEPT !.active = conv[t].saved_transformers[1].active,
                          !.plugins_id = conv[t].saved_transformers[1].plugins_id]
    /\ conv' = [conv EXCEPT ![t].pc = "exit_theme"]
    /\ UNCHANGED _ALTAIR_SERIALIZATION_LOCK
    /\ UNCHANGED nonConvVars

\* Line 265: leave the theme context.
ExitTheme(t) ==
    /\ conv[t].pc = "exit_theme"
    /\ IF conv[t].saved_theme # <<>>
       THEN alt' = [alt EXCEPT !.theme = conv[t].saved_theme[1]]
       ELSE UNCHANGED alt
    /\ conv' = [conv EXCEPT ![t].pc = "put"]
    /\ UNCHANGED _ALTAIR_SERIALIZATION_LOCK
    /\ UNCHANGED nonConvVars

\* Lines 285-288: chart_dict["datasets"] = datasets; return chart_dict.  The
\* returned dict holds the closure's dict itself, not a copy of it.
PutDatasets(t) ==
    /\ conv[t].pc = "put"
    /\ conv' = [conv EXCEPT ![t].pc = "returned"]
    /\ UNCHANGED <<alt, _ALTAIR_SERIALIZATION_LOCK>>
    /\ UNCHANGED nonConvVars

InitConv ==
    /\ \E n \in [Threads -> 1..MaxTables] :
          conv = [t \in Threads |->
                    [pc |-> "register", chart |-> ConvChart(t, n[t]), i |-> 1,
                     datasets |-> {}, chart_dict |-> <<>>, theme |-> "",
                     saved_theme |-> <<>>, saved_transformers |-> <<>>]]
    /\ alt = [plugins_id |-> 0, active |-> 0, theme |-> "default"]
    /\ _ALTAIR_SERIALIZATION_LOCK = 0
    /\ IdleText
    /\ IdleCall
    /\ IdleSerde
    /\ IdleTree
    /\ IdlePages

NextConv ==
    \E t \in Threads :
        \/ Register(t)
        \/ EnterTheme(t)
        \/ EnterTransformer(t)
        \/ ToDictTable(t)
        \/ ToDictReturn(t)
        \/ ExitTransformer(t)
        \/ ExitTheme(t)
        \/ PutDatasets(t)

SpecConv == InitConv /\ [][NextConv]_vars

(***************************************************************************)
(* Claims about the whole chart call (SpecChart).                          *)
(***************************************************************************)
\* Both evaluations of the call have put an id into their message.
BothHaveId == prev # <<>> /\ prev[1].proto.id # <<>> /\ proto.id # <<>>

DatasetNameList(p) == [i \in 1..Len(p.datasets) |-> p.datasets[i].name]

\* The two evaluations agree on everything the identity is computed from.
SameIdentityInputs ==
    /\ args.key = prev[1].args.key
    /\ proto.spec = prev[1].proto.spec
    /\ proto.data = prev[1].proto.data
    /\ DatasetNameList(proto) = DatasetNameList(prev[1].proto)
    /\ args.theme = prev[1].args.theme
    /\ proto.form_id = prev[1].proto.form_id
    /\ args.use_container_width = prev[1].args.use_container_width
    /\ args.page = prev[1].args.page

\* The two evaluations differ in the argument f and in nothing else.
DifferOnlyIn(f) ==
    /\ args[f] # prev[1].args[f]
    /\ \A g \in DOMAIN args \ {f} : args[g] = prev[1].args[g]

\* C2: with selection engaged, two calls with identical key, stabilized spec
\* text, inline data bytes, dataset names, theme, form id, container-width
\* flag and page put the same id into their messages, and two calls that
\* differ in exactly one of theme, form id or container-width flag put
\* different ids into them.
C2_WidgetIdentity ==
    BothHaveId =>
        /\ SameIdentityInputs => proto.id = prev[1].proto.id
        /\ \A f \in {"theme", "form_id", "use_container_width"} :
              DifferOnlyIn(f) => proto.id # prev[1].proto.id

\* The second evaluation differs from the first in the theme only, and both
\* have put an id into their message.
C2_Witness ==
    /\ BothHaveId
    /\ DifferOnlyIn("theme")
    /\ pc = "done"

\* The second evaluation replaced "rerun" by a callback: the inputs of the
\* identity are the same, and both have put an id into their message.
C2_SameInputsReached ==
    /\ BothHaveId
    /\ DifferOnlyIn("on_select")
    /\ SameIdentityInputs
    /\ pc = "done"

(***************************************************************************)
(* The selection state and its wire form.  A value is a record [t, v,     *)
(* keys, items]: t its type, v the text of a leaf, items the members of a  *)
(* list or the values of a dict, keys the keys of a dict in order.  A wire *)
(* text is the sequence of its JSON tokens [k, v].                         *)
(***************************************************************************)
J(t, v, keys, items) == [t |-> t, v |-> v, keys |-> keys, items |-> items]
JNull == J("null", "null", <<>>, <<>>)
JBool(v) == J("bool", v, <<>>, <<>>)
JInt(v) == J("int", v, <<>>, <<>>)
JStr(v) == J("str", v, <<>>, <<>>)
JList(items) == J("list", "", <<>>, items)
JDict(keys, items) == J("dict", "", keys, items)
\* A leaf that JSON has no form for (a date, say), with its str() text.
JObj(v) == J("obj", v, <<>>, <<>>)

Tok(k, v) == [k |-> k, v |-> v]
P(k) == Tok(k, "")

\* d[k] = val on a dict: the value of an existing key is replaced in place.
DictSet(d, k, val) ==
    IF \E i \in 1..Len(d.keys) : d.keys[i] = k
    THEN LET i == CHOOSE j \in 1..Len(d.keys) : d.keys[j] = k
         IN  JDict(d.keys, [d.items EXCEPT ![i] = val])
    ELSE JDict(Append(d.keys, k), Append(d.items, val))

HasKey(d, k) == \E i \in 1..Len(d.keys) : d.keys[i] = k
Get(d, k) == d.items[CHOOSE j \in 1..Len(d.keys) : d.keys[j] = k]

RECURSIVE JsonDumps(_)
RECURSIVE DumpsMembersOf(_, _)
\* The members of a list or dict from the i-th on, separated by commas.
DumpsMembersOf(val, i) ==
    IF i > Len(val.items) THEN <<>>
    ELSE (IF i > 1 THEN <<P(",")>> ELSE <<>>)
         \o (IF val.t = "dict" THEN <<Tok("str", val.keys[i]), P(":")>> ELSE <<>>)
         \o JsonDumps(val.items[i])
         \o DumpsMembersOf(val, i + 1)

\* json.dumps(val, default=str), line 133.
JsonDumps(val) ==
    CASE val.t = "null" -> <<Tok("lit", "null")>>
      [] val.t = "bool" -> <<Tok("lit", val.v)>>
      [] val.t = "int" -> <<Tok("num", val.v)>>
      [] val.t = "str" -> <<Tok("str", val.v)>>
      [] val.t = "obj" -> <<Tok("str", val.v)>>
      [] val.t = "list" -> <<P("[")>> \o DumpsMembersOf(val, 1) \o <<P("]")>>
      [] val.t = "dict" -> <<P("{")>> \o DumpsMembersOf(val, 1) \o <<P("}")>>

ParseFails == [ok |-> FALSE, val |-> JNull, next |-> 0]
Parsed(val, next) == [ok |-> TRUE, val |-> val, next |-> next]

RECURSIVE ParseValue(_, _)
RECURSIVE ParseArray(_, _, _, _)
RECURSIVE ParseObject(_, _, _, _)

\* The members of an array from token i on; acc holds those read so far.
ParseArray(ts, i, acc, first) ==
    IF i > Len(ts) THEN ParseFails
    ELSE IF first /\ ts[i].k = "]" THEN Parsed(JList(acc), i + 1)
    ELSE LET r == ParseValue(ts, i)
         IN  IF ~r.ok \/ r.next > Len(ts) THEN ParseFails
             ELSE IF ts[r.next].k = ","
                  THEN ParseArray(ts, r.next + 1, Append(acc, r.val), FALSE)
             ELSE IF ts[r.next].k = "]"
                  THEN Parsed(JList(Append(acc, r.val)), r.next + 1)
             ELSE ParseFails

\* The members of an object from token i on; a repeated key keeps its last
\* value.
ParseObject(ts, i, acc, first) ==
    IF i > Len(ts) THEN ParseFails
    ELSE IF first /\ ts[i].k = "}" THEN Parsed(acc, i + 1)
    ELSE IF ts[i].k # "str" \/ i + 1 > Len(ts) THEN ParseFails
    ELSE IF ts[i + 1].k # ":" THEN ParseFails
    ELSE LET r == ParseValue(ts, i + 2)
         IN  IF ~r.ok \/ r.next > Len(ts) THEN ParseFails
             ELSE IF ts[r.next].k = ","
                  THEN ParseObject(ts, r.next + 1, DictSet(acc, ts[i].v, r.val), FALSE)
             ELSE IF ts[r.next].k = "}"
                  THEN Parsed(DictSet(acc, ts[i].v, r.val), r.next + 1)
             ELSE ParseFails

ParseValue(ts, i) ==
    IF i > Len(ts) THEN ParseFails
    ELSE CASE ts[i].k = "str" -> Parsed(JStr(ts[i].v), i + 1)
           [] ts[i].k = "num" -> Parsed(JInt(ts[i].v), i + 1)
           [] ts[i].k = "lit" ->
                 Parsed(IF ts[i].v = "null" THEN JNull ELSE JBool(ts[i].v), i + 1)
           [] ts[i].k = "[" -> ParseArray(ts, i + 1, <<>>, TRUE)
           [] ts[i].k = "{" -> ParseObject(ts, i + 1, JDict(<<>>, <<>>), TRUE)
           [] OTHER -> ParseFails

\* json.loads(text), line 124: the value, or a JSONDecodeError.
JsonLoads(ts) ==
    LET r == ParseValue(ts, 1)
    IN  IF r.ok /\ r.next = Len(ts) + 1
        THEN [raised |-> "", val |-> r.val]
        ELSE [raised |-> "JSONDecodeError", val |-> JNull]

\* The characters of a string of two characters, <<>> for any other string
\* ("ab" is the only string of two characters among the wire values).
TwoChars(s) == IF s = "ab" THEN <<"a", "b">> ELSE <<>>

\* A dict key made of a value that is no string.
KeyText(val) == IF val.t = "str" THEN val.v ELSE val.t \o ":" \o val.v

PyRaises(e) == [raised |-> e, val |-> JNull]
PyReturns(val) == [raised |-> "", val |-> val]

RECURSIVE DictFromPairs(_, _, _)
\* dict(a list): every member has to be a pair, its first part hashable.
DictFromPairs(items, i, acc) ==
    IF i > Len(items) THEN PyReturns(acc)
    ELSE LET m == items[i]
         IN  CASE m.t = "list" ->
                    IF Len(m.items) # 2 THEN PyRaises("ValueError")
                    ELSE IF m.items[1].t \in {"list", "dict"} THEN PyRaises("TypeError")
                    ELSE DictFromPairs(items, i + 1,
                                       DictSet(acc, KeyText(m.items[1]), m.items[2]))
               [] m.t = "dict" ->
                    IF Len(m.keys) # 2 THEN PyRaises("ValueError")
                    ELSE DictFromPairs(items, i + 1,
                                       DictSet(acc, m.keys[1], JStr(m.keys[2])))
               [] m.t = "str" ->
                    IF TwoChars(m.v) = <<>> THEN PyRaises("ValueError")
                    ELSE DictFromPairs(items, i + 1,
                                       DictSet(acc, TwoChars(m.v)[1], JStr(TwoChars(m.v)[2])))
               [] OTHER -> PyRaises("TypeError")

\* AttributeDictionary(val): the dict constructor on any value.
AttributeDictionary(val) ==
    CASE val.t = "dict" -> PyReturns(val)
      [] val.t = "list" -> DictFromPairs(val.items, 1, JDict(<<>>, <<>>))
      [] val.t = "str" ->
            IF val.v = "" THEN PyReturns(JDict(<<>>, <<>>)) ELSE PyRaises("ValueError")
      [] OTHER -> PyRaises("TypeError")

\* obj.key on an AttributeDictionary: the item of that key.
GetAttr(d, k) == Get(d, k)

empty_selection_state == JDict(<<"select">>, <<JDict(<<>>, <<>>)>>)

\* A mutant of KeepOrDefault: the default is merged into the decoded dict.
KeepOrMerge(d) ==
    IF ~HasKey(d, "select") THEN DictSet(d, "select", JDict(<<>>, <<>>)) ELSE d

\* Lines 127-128.
KeepOrDefault(d) ==
    IF ~HasKey(d, "select") THEN empty_selection_state ELSE d

\* VegaLiteStateSerde.deserialize(ui_value), lines 116-130; ui_value is <<>>
\* for None and <<text>> for a text.
deserialize(ui) ==
    IF ui = <<>>
    THEN AttributeDictionary(KeepOrDefault(empty_selection_state))
    ELSE LET loaded == JsonLoads(ui[1])
         IN  IF loaded.raised # "" THEN PyRaises(loaded.raised)
             ELSE LET selection_state0 == AttributeDictionary(loaded.val)
                  IN  IF selection_state0.raised # "" THEN selection_state0
                      ELSE AttributeDictionary(KeepOrDefault(selection_state0.val))

\* A mutant of serialize: only the `select` sub-mapping is written.
SerializeSelectOnly(s) == JsonDumps(Get(s, "select"))

\* VegaLiteStateSerde.serialize(selection_state), lines 132-133.
serialize(s) == JsonDumps(s)

\* Leaves with a JSON form.
Leaves == {JInt("0"), JInt("10"), JStr("a"), JNull, JBool("true")}

\* Lists of leaves.
LeafLists == {JList(l) : l \in UNION {[1..n -> Leaves] : n \in 0..MaxItems}}

\* The values of a selection parameter: an interval {x: [..]} or a point list.
ParamValues == {JDict(<<"x">>, <<l>>) : l \in LeafLists} \cup LeafLists

\* Selection states: `select` with one parameter or none, possibly a further
\* key, and one state holding a date.
SelectionStates ==
    LET Selects == {JDict(<<>>, <<>>)}
                   \cup {JDict(<<"param_1">>, <<v>>) : v \in ParamValues}
    IN  {JDict(<<"select">>, <<s>>) : s \in Selects}
        \cup {JDict(<<"select", "extra">>, <<JDict(<<>>, <<>>), l>>) : l \in Leaves}
        \cup {JDict(<<"select">>, <<JDict(<<"param_1">>, <<JObj("2024-01-01")>>)>>)}

\* Wire texts that no selection state serializes to: mappings without
\* `select`, texts that are no JSON, JSON values that are no mapping.
OtherTexts ==
    {<<P("{"), P("}")>>,
     <<P("{"), Tok("str", "a"), P(":"), Tok("num", "1"), P("}")>>,
     <<P("{"), Tok("str", "select"), P(":"), Tok("num", "1"), P("}")>>,
     <<P("{"), Tok("str", "a"), P(":"), Tok("num", "1"), P(","),
       Tok("str", "a"), P(":"), Tok("num", "2"), P("}")>>,
     <<P("{")>>,
     <<Tok("bare", "selection")>>,
     <<P("{"), Tok("str", "select"), P(":")>>,
     <<P("["), Tok("num", "1"), P(","), P("]")>>,
     <<P("{"), P("}"), P("}")>>,
     <<P("["), Tok("num", "1"), P(","), Tok("num", "2"), P("]")>>,
     <<Tok("str", "select")>>,
     <<Tok("str", "")>>,
     <<Tok("num", "5")>>,
     <<Tok("lit", "null")>>,
     <<Tok("lit", "true")>>,
     <<P("["), P("]")>>,
     <<P("["), P("["), Tok("str", "select"), P(","), Tok("num", "1"), P("]"), P("]")>>,
     <<P("["), P("["), Tok("num", "1"), P(","), Tok("num", "2"), P("]"), P("]")>>,
     <<P("["), Tok("str", "ab"), P("]")>>,
     <<P("["), P("["), P("["), P("]"), P(","), Tok("num", "2"), P("]"), P("]")>>,
     <<P("["), P("{"), Tok("str", "a"), P(":"), Tok("num", "1"), P(","),
       Tok("str", "b"), P(":"), Tok("num", "2"), P("}"), P("]")>>}

\* What the widget manager hands to deserialize: None or a text.
WireValues == {<<>>} \cup {<<t>> : t \in OtherTexts}

NotDeserialized == PyReturns(JNull)

\* The widget manager serializes a selection state.
SerializeState ==
    /\ serde_pc = "state"
    /\ ui_value' = <<serialize(selection_state[1])>>
    /\ serde_pc' = "wire"
    /\ UNCHANGED <<selection_state, deserialized>>
    /\ UNCHANGED nonSerdeVars

\* The widget manager deserializes a wire value.
DeserializeWire ==
    /\ serde_pc = "wire"
    /\ deserialized' = deserialize(ui_value)
    /\ serde_pc' = "done"
    /\ UNCHANGED <<selection_state, ui_value>>
    /\ UNCHANGED nonSerdeVars

(***************************************************************************)
(* SpecSerde: a selection state is serialized and deserialized again, or a *)
(* wire value from elsewhere is deserialized.                              *)
(***************************************************************************)
InitSerde ==
    /\ \/ /\ serde_pc = "state"
          /\ selection_state \in {<<s>> : s \in SelectionStates}
          /\ ui_value = <<>>
       \/ /\ serde_pc = "wire"
          /\ selection_state = <<>>
          /\ ui_value \in WireValues
    /\ deserialized = NotDeserialized
    /\ IdleText
    /\ IdleCall
    /\ IdleConv
    /\ IdleTree
    /\ IdlePages

NextSerde == SerializeState \/ DeserializeWire

SpecSerde == InitSerde /\ [][NextSerde]_vars

(***************************************************************************)
(* Claims about concurrent conversions (SpecConv).                         *)
(***************************************************************************)
InToDict(t) == conv[t].pc = "to_dict"

\* C6: the serialization lock is held around altair_chart.to_dict(), so at
\* no time are two threads inside that conversion step.
C6_MutualExclusion ==
    \A t \in DOMAIN conv :
        InToDict(t) =>
            /\ _ALTAIR_SERIALIZATION_LOCK = t
            /\ \A u \in DOMAIN conv : InToDict(u) => u = t

\* The payloads of thread t's own chart, as the closure stores them.
OwnPayloads(t) ==
    {id_transform(conv[t].chart[i]).stored : i \in 1..Len(conv[t].chart)}

\* The dataset names the returned chart dict refers to.
ReferencedNames(t) ==
    {conv[t].chart_dict[i].name :
        i \in {j \in 1..Len(conv[t].chart_dict) :
                 "name" \in DOMAIN conv[t].chart_dict[j]}}

\* C7: under any interleaving, the `datasets` mapping a call returns holds
\* exactly the payloads of its own chart: every dataset name the returned
\* chart dict refers to is one of its keys, and no payload of the other call
\* is in it.
C7_Isolation ==
    \A t \in DOMAIN conv :
        conv[t].pc = "returned" =>
            /\ ReferencedNames(t) \subseteq {Md5(b) : b \in conv[t].datasets}
            /\ conv[t].datasets \subseteq OwnPayloads(t)

(***************************************************************************)
(* Claims about named datasets, normalization and autosize (SpecExtract).  *)
(***************************************************************************)
\* _marshall_chart_data is entered with a `datasets` key and returns.
MarshallsDatasets ==
    /\ pc = "marshall"
    /\ "datasets" \in DOMAIN spec
    /\ pc' = "serialize"

\* Entry e of the message is the entry for the pair it of the mapping.
EntryFor(e, it) ==
    /\ e.has_name
    /\ e.name = PyStr(it.key)
    /\ e.data = IF IsBytes(it.value) THEN it.value ELSE _serialize_data(it.value)

\* One entry per pair of the mapping, in mapping order, and the key gone.
EntriesInOrder ==
    /\ "datasets" \notin DOMAIN spec'
    /\ Len(proto'.datasets) = Len(spec["datasets"])
    /\ \A i \in 1..Len(spec["datasets"]) :
          EntryFor(proto'.datasets[i], spec["datasets"][i])

NothingGiven ==
    /\ LocalSpecIsNone(args) \/ DOMAIN spec = {}
    /\ DOMAIN args.kwargs = {}

\* C12: _prepare_vega_lite_spec raises the validation error exactly when the
\* merged spec is empty (no spec or an empty spec, and no keyword
\* arguments); on that error no autosize is added, and on every normal
\* return the result is non-empty and has an `autosize` entry.
C12_EmptySpecRejection ==
    [][pc = "prepare" =>
          /\ pc' = "raised" <=> NothingGiven
          /\ pc' = "raised" =>
                /\ error' = "empty spec"
                /\ spec' = spec
                /\ caller_spec' = caller_spec
                /\ "autosize" \notin DOMAIN spec'
          /\ pc' # "raised" =>
                /\ pc' = "marshall"
                /\ error' = ""
                /\ DOMAIN spec' # {}
                /\ "autosize" \in DOMAIN spec']_vars

\* An empty spec dict without keyword arguments has been rejected.
C12_Witness ==
    /\ pc = "raised"
    /\ error = "empty spec"
    /\ args.mapping_as = "spec"
    /\ DOMAIN args.mapping = {}
    /\ DOMAIN args.kwargs = {}
    /\ "autosize" \notin DOMAIN spec

\* Keyword arguments alone have made a spec.
C12_KwargsOnlyReached ==
    /\ pc = "marshall"
    /\ args.mapping_as = "absent"
    /\ DOMAIN args.kwargs # {}
    /\ "autosize" \in DOMAIN spec

\* C13: if the spec already has `autosize`, normalization leaves its value
\* untouched; otherwise the result gets {type: fit-x, contains: padding}
\* exactly when the spec contains `vconcat` and container-width is true, and
\* {type: fit, contains: padding} in every other case.
C13_AutosizeDefault ==
    [][(pc = "prepare" /\ pc' = "marshall") =>
          IF "autosize" \in DOMAIN spec
          THEN spec'["autosize"] = spec["autosize"]
          ELSE IF "vconcat" \in DOMAIN spec /\ args.use_container_width
               THEN spec'["autosize"] = [type |-> "fit-x", contains |-> "padding"]
               ELSE spec'["autosize"] = [type |-> "fit", contains |-> "padding"]]_vars

\* A vconcat spec without autosize, normalized with container-width true.
C13_Witness ==
    /\ pc = "marshall"
    /\ args.use_container_width
    /\ "vconcat" \in DOMAIN args.mapping
    /\ "autosize" \notin DOMAIN args.mapping
    /\ spec["autosize"] = [type |-> "fit-x", contains |-> "padding"]

(***************************************************************************)
(* Claims about checks, failures and the return value (SpecChart).         *)
(***************************************************************************)
CheckNames ==
    {"check_cache_replay_rules", "check_callback_rules", "check_session_state_rules"}

Invoked == {checks[i] : i \in 1..Len(checks)}

PastLegality == pc \in {"prepare", "marshall", "serialize", "select", "enqueue", "done"}

\* Nothing of the spec has been processed and no message field has been set.
NothingProcessed ==
    /\ aliased
    /\ spec = args.mapping
    /\ caller_spec = args.mapping
    /\ proto = FreshProto

GatedChecks ==
    /\ args.on_select = "ignore" => checks = <<>>
    /\ "check_callback_rules" \in Invoked => Callable(args.on_select)
    /\ (PastLegality /\ args.on_select = "rerun") =>
          checks = <<"check_cache_replay_rules", "check_session_state_rules">>
    /\ (PastLegality /\ Callable(args.on_select)) =>
          checks = <<"check_cache_replay_rules", "check_callback_rules",
                     "check_session_state_rules">>
    /\ error \in CheckNames => pc = "raised" /\ NothingProcessed

\* C14: the cache-replay, callback and session-state checks are run only
\* when the mode is not "ignore", the callback check only when the mode is a
\* callable, and none of them with mode "ignore"; when they run, they run
\* before the spec is normalized or any message field is set, so a failing
\* check ends the call before any spec processing.
C14_LegalityGating ==
    /\ []GatedChecks
    /\ [][(checks' # checks /\ checks' # <<>>) =>
             /\ pc = "legality"
             /\ NothingProcessed
             /\ UNCHANGED <<spec, caller_spec, aliased, proto, registered, enqueued>>]_vars

\* A callable mode whose session-state check failed after the two other
\* checks had passed.
C14_Witness ==
    /\ pc = "raised"
    /\ Callable(args.on_select)
    /\ error = "check_session_state_rules"
    /\ checks = <<"check_cache_replay_rules", "check_callback_rules",
                  "check_session_state_rules">>
    /\ NothingProcessed

\* The spec declares a selection: some entry of `params` has a `name`, a
\* `select`, and a `type` inside `select`.
DeclaresSelection(s) ==
    /\ "params" \in DOMAIN s
    /\ \E i \in 1..Len(s["params"]) :
          /\ {"name", "select"} \subseteq s["params"][i].keys
          /\ "type" \in s["params"][i].select

\* C15: with interactivity engaged, the call fails with the error about
\* missing selections if and only if the processed spec has no entry in
\* `params` with a `name`, a `select` and a `type` inside `select`; with mode
\* "ignore" the check is never made and a spec without selections is
\* accepted.
C15_SelectionDeclarationCheck ==
    /\ [](/\ pc = "select" => IsSelectionActivated(args)
          /\ error = "no selections" => IsSelectionActivated(args) /\ pc = "raised"
          /\ (pc \in {"enqueue", "done"} /\ IsSelectionActivated(args))
                => DeclaresSelection(spec))
    /\ [][pc = "select" =>
             ((pc' = "raised" /\ error' = "no selections") <=> ~DeclaresSelection(spec))]_vars
    /\ [][(pc = "serialize" /\ args.on_select = "ignore") => pc' = "enqueue"]_vars

\* An engaged call has failed on a spec whose only parameter has a `select`
\* without a `type`.
C15_Witness ==
    /\ pc = "raised"
    /\ error = "no selections"
    /\ "params" \in DOMAIN spec
    /\ \E i \in 1..Len(spec["params"]) :
          /\ "select" \in spec["params"][i].keys
          /\ "type" \notin spec["params"][i].select

\* A call with mode "ignore" has enqueued a spec that declares no selection.
C15_IgnoreAccepted ==
    /\ pc = "done"
    /\ args.on_select = "ignore"
    /\ ~DeclaresSelection(spec)

\* The widgets registered and the elements enqueued before this call began.
RegisteredBefore == IF prev = <<>> THEN <<>> ELSE prev[1].registered
EnqueuedBefore == IF prev = <<>> THEN <<>> ELSE prev[1].enqueued

CallErrors ==
    {"invalid theme", "invalid on_select", "empty spec", "dataset collision",
     "no selections"} \cup CheckNames

\* C16: whenever a chart call raises one of its validation or legality
\* errors, no widget has been registered and no element has been enqueued by
\* that call; registration and enqueue happen only after every check has
\* passed.
C16_NoPartialOutput ==
    /\ [](/\ pc = "raised" =>
                /\ error \in CallErrors
                /\ registered = RegisteredBefore
                /\ enqueued = EnqueuedBefore
                /\ result = ""
          /\ (registered # RegisteredBefore \/ enqueued # EnqueuedBefore) =>
                /\ error = ""
                /\ pc \in {"enqueue", "done"}
                /\ checks = LegalityCheckList(args)
                /\ IsSelectionActivated(args) => DeclaresSelection(spec))
    /\ [][(registered' # registered \/ enqueued' # enqueued) =>
             pc \in {"select", "enqueue"} /\ pc' # "raised"]_vars

\* The second evaluation of an engaged call has failed on a spec without
\* selections, after the first one had registered and enqueued.
C16_Witness ==
    /\ pc = "raised"
    /\ error = "no selections"
    /\ prev # <<>>
    /\ Len(prev[1].registered) = 1
    /\ registered = prev[1].registered
    /\ enqueued = prev[1].enqueued

Last(q) == q[Len(q)]

\* C17: a successful chart call enqueues exactly one chart element; when the
\* mode is "rerun" or a callable it returns the Selection State obtained
\* from widget registration (registered before the enqueue, with
\* is_select_enabled true and id set in the message), and when the mode is
\* "ignore" it returns the handle produced by the enqueue and the message
\* has is_select_enabled false and no id or form_id.
C17_ReturnValueByMode ==
    /\ [](pc = "done" =>
            /\ Len(enqueued) = Len(EnqueuedBefore) + 1
            /\ Last(enqueued) = proto
            /\ IF args.on_select = "rerun" \/ Callable(args.on_select)
               THEN /\ result = "selection state"
                    /\ Len(registered) = Len(RegisteredBefore) + 1
                    /\ Last(registered).proto = proto
                    /\ proto.is_select_enabled
                    /\ proto.id # <<>>
               ELSE /\ args.on_select = "ignore"
                    /\ result = "delta generator"
                    /\ registered = RegisteredBefore
                    /\ ~proto.is_select_enabled
                    /\ proto.id = <<>>
                    /\ proto.form_id = "")
    /\ [][registered' # registered =>
             enqueued' = enqueued /\ enqueued = EnqueuedBefore]_vars

\* A call with mode "rerun" has returned, inside a form.
C17_Witness ==
    /\ pc = "done"
    /\ args.on_select = "rerun"
    /\ args.form_id = "form1"
    /\ result = "selection state"
    /\ Last(enqueued).id # <<>>
    /\ Last(enqueued).form_id = "form1"

\* A call with mode "ignore" has returned, inside a form.
C17_IgnoreReturned ==
    /\ pc = "done"
    /\ args.on_select = "ignore"
    /\ args.form_id = "form1"
    /\ result = "delta generator"

(***************************************************************************)
(* Claims about the selection state and its wire form (SpecSerde).         *)
(***************************************************************************)
\* The mapping {select: {}}.
OnlyEmptySelect == JDict(<<"select">>, <<JDict(<<>>, <<>>)>>)

\* The wire value is a text that decodes to a mapping.
DecodesToMapping ==
    /\ ui_value # <<>>
    /\ JsonLoads(ui_value[1]).raised = ""
    /\ JsonLoads(ui_value[1]).val.t = "dict"

\* C18: deserialize(None) yields exactly {select: {}}; for a wire value that
\* decodes to a mapping without a `select` key the result is exactly
\* {select: {}} with none of the decoded keys kept; for a wire value that
\* decodes to a mapping with `select` the result is the decoded mapping
\* unchanged.
C18_DeserializerDefaulting ==
    serde_pc = "done" =>
        /\ ui_value = <<>> => deserialized = PyReturns(OnlyEmptySelect)
        /\ DecodesToMapping =>
              IF HasKey(JsonLoads(ui_value[1]).val, "select")
              THEN deserialized = PyReturns(JsonLoads(ui_value[1]).val)
              ELSE deserialized = PyReturns(OnlyEmptySelect)

\* The text {"a": 1} has been deserialized to {select: {}}.
C18_Witness ==
    /\ serde_pc = "done"
    /\ ui_value = <<JsonDumps(JDict(<<"a">>, <<JInt("1")>>))>>
    /\ deserialized = PyReturns(OnlyEmptySelect)

\* A text with `select` and a further key has been deserialized.
C18_KeptReached ==
    /\ serde_pc = "done"
    /\ DecodesToMapping
    /\ deserialized.raised = ""
    /\ deserialized.val.keys = <<"select", "extra">>

\* C19: for every wire value that is absent or malformed (a text that is not
\* decodable, or that decodes to something other than a mapping),
\* deserialize returns {select: {}} rather than raising or returning another
\* value.
C19_MalformedNormalizes ==
    (serde_pc = "done" /\ ~DecodesToMapping) =>
        deserialized = PyReturns(OnlyEmptySelect)

RECURSIVE PrimitiveLeaves(_)
\* Every leaf of the value has a JSON form.
PrimitiveLeaves(val) ==
    /\ val.t # "obj"
    /\ \A i \in 1..Len(val.items) : PrimitiveLeaves(val.items[i])

\* C20: for every selection state with a `select` key whose leaves are JSON
\* primitives, deserialize(serialize(s)) is structurally equal to s, and its
\* `select` sub-mapping is readable by key and by attribute.
C20_RoundTrip ==
    (serde_pc = "done" /\ selection_state # <<>>
        /\ HasKey(selection_state[1], "select")
        /\ PrimitiveLeaves(selection_state[1])) =>
            /\ deserialized = PyReturns(selection_state[1])
            /\ Get(deserialized.val, "select") = Get(selection_state[1], "select")
            /\ GetAttr(deserialized.val, "select") = Get(selection_state[1], "select")

\* {select: {param_1: {x: [0, 10]}}} has gone through serialize and
\* deserialize, and select.param_1.x is [0, 10].
C20_Witness ==
    /\ serde_pc = "done"
    /\ selection_state =
          <<JDict(<<"select">>,
                  <<JDict(<<"param_1">>,
                          <<JDict(<<"x">>, <<JList(<<JInt("0"), JInt("10")>>)>>)>>)>>)>>
    /\ deserialized.raised = ""
    /\ Get(Get(GetAttr(deserialized.val, "select"), "param_1"), "x")
          = JList(<<JInt("0"), JInt("10")>>)

(***************************************************************************)
(* The tree-level pass, _stabilize_spec (lines 328-375).  A name is the    *)
(* text pre ++ digits of num ++ tail; a chart dict has its "params" (each  *)
(* with a name and, when it has the key, its "views") and a body: the      *)
(* other keys of the dict, each with the scalars found under it.           *)
(***************************************************************************)
MaxParams == 2     \* parameters of one chart dict (SpecTree)
MaxViews == 2      \* views of one parameter
MaxViewNum == 2    \* largest number of a view identifier of the given chart
MaxPasses == 2     \* times _stabilize_spec is applied to one chart dict

TreeName(pre, num) == [pre |-> pre, num |-> num, tail |-> ""]

\* Line 96: re.compile(r"^param_\d+$"), used with match (line 349).
_ALTAIR_UNNAMED_PARAM_REGEX(name) == name.pre = "param_" /\ name.tail = ""

\* Lines 349-350, with every parameter consuming a counter value.
CountEveryParam(name, param_counter) == param_counter + 1

\* Lines 349-350: param_counter after the parameter of this name.
CountParam(name, param_counter) ==
    IF _ALTAIR_UNNAMED_PARAM_REGEX(name) THEN param_counter + 1 ELSE param_counter

\* Line 358, with every view recorded.
RenamedAlways(view, stable_view_name) == TRUE

\* Line 358: if view != stable_view_name.
Renamed(view, stable_view_name) == view # stable_view_name

\* stable_ids[view] = stable_view_name (line 366) on a dict kept as the set
\* of its items.
SetItem(ids, old, new) ==
    {e \in ids : e.old # old} \cup {[old |-> old, new |-> new]}

RECURSIVE StabilizeViews(_, _, _, _)
\* Lines 356-366: the loop over param["views"], entered at view_index with
\* view_counter views counted.
StabilizeViews(views, view_index, view_counter, ids) ==
    IF view_index > Len(views)
    THEN [views |-> views, stable_ids |-> ids]
    ELSE LET view == views[view_index]
             stable_view_name == TreeName("view_", view_counter + 1)
         IN  IF Renamed(view, stable_view_name)
             THEN StabilizeViews([views EXCEPT ![view_index] = stable_view_name],
                                 view_index + 1, view_counter + 1,
                                 SetItem(ids, view, stable_view_name))
             ELSE StabilizeViews(views, view_index + 1, view_counter + 1, ids)

RECURSIVE StabilizeParams(_, _, _, _)
\* Lines 346-366: the loop over chart_dict["params"], entered at parameter i.
\* The view counter starts at 0 for every parameter that has views (line 355).
StabilizeParams(params, i, param_counter, ids) ==
    IF i > Len(params)
    THEN [params |-> params, stable_ids |-> ids]
    ELSE LET param == params[i]
             counter == CountParam(param.name, param_counter)
             name == IF _ALTAIR_UNNAMED_PARAM_REGEX(param.name)
                     THEN TreeName("selection_", counter)
                     ELSE param.name
             v == IF param.has_views
                  THEN StabilizeViews(param.views, 1, 0, ids)
                  ELSE [views |-> param.views, stable_ids |-> ids]
         IN  StabilizeParams(
                 [params EXCEPT ![i] = [name |-> name, has_views |-> param.has_views,
                                        views |-> v.views]],
                 i + 1, counter, v.stable_ids)

\* streamlit.util.replace_values_in_dict on the scalars under one key: a
\* scalar equal to a key of the map becomes the mapped value.
replace_values_in_dict(refs, old_to_new_map) ==
    [n \in DOMAIN refs |->
        IF \E e \in old_to_new_map : e.old = refs[n]
        THEN (CHOOSE e \in old_to_new_map : e.old = refs[n]).new
        ELSE refs[n]]

\* Line 374: the keys whose values are rewritten.
StabilizedKeys == {"hconcat", "vconcat", "layer", "encoding", "data"}

\* Lines 328-375: the chart dict after the call, and stable_ids at its end.
_stabilize_spec(d) ==
    IF ~d.has_params
    THEN [chart_dict |-> d, stable_ids |-> {}]
    ELSE LET r == StabilizeParams(d.params, 1, 0, {})
             renamed == [d EXCEPT !.params = r.params]
         IN  IF r.stable_ids = {}
             THEN [chart_dict |-> renamed, stable_ids |-> {}]
             ELSE [chart_dict |->
                      [renamed EXCEPT !.body =
                          [n \in DOMAIN d.body |->
                              IF d.body[n].key \in StabilizedKeys
                              THEN [key |-> d.body[n].key,
                                    refs |-> replace_values_in_dict(d.body[n].refs,
                                                                    r.stable_ids)]
                              ELSE d.body[n]]],
                   stable_ids |-> r.stable_ids]

\* The chart dicts given to the pass.
SeqsUpTo(S, n) == UNION {[1..m -> S] : m \in 0..n}

ViewNames == {TreeName("view_", k) : k \in 1..MaxViewNum}

ParamNames ==
    {TreeName("param_", 7), TreeName("param_", 2), TreeName("brush_", 1),
     [pre |-> "param_", num |-> 3, tail |-> "x"]}

TreeParams ==
    {[name |-> n, has_views |-> FALSE, views |-> <<>>] : n \in ParamNames}
    \cup {[name |-> n, has_views |-> TRUE, views |-> v] :
            n \in {TreeName("param_", 7), TreeName("brush_", 1)},
            v \in SeqsUpTo(ViewNames, MaxViews)}

\* One key of the chart dict besides "params", with one scalar under it.
TreeBody(key, ref) == <<[key |-> key, refs |-> <<ref>>]>>

TreeBodies ==
    {<<>>}
    \cup {TreeBody("layer", r) :
            r \in ViewNames \cup {[pre |-> "view_", num |-> 1, tail |-> "0px"]}}
    \cup {TreeBody("encoding", r) : r \in {TreeName("param_", 7), TreeName("view_", 1)}}
    \cup {TreeBody("transform", r) : r \in {TreeName("param_", 7), TreeName("view_", 2)}}

TreeCharts ==
    {[has_params |-> FALSE, params |-> <<>>, body |-> b] : b \in TreeBodies}
    \cup {[has_params |-> TRUE, params |-> p, body |-> b] :
            p \in SeqsUpTo(TreeParams, MaxParams), b \in TreeBodies}

\* _stabilize_spec(chart_dict), lines 328-375.
StabilizeSpec ==
    /\ Len(passes) < MaxPasses
    /\ LET r == _stabilize_spec(chart_dict)
       IN  /\ chart_dict' = r.chart_dict
           /\ passes' = Append(passes, r)
    /\ UNCHANGED given
    /\ UNCHANGED nonTreeVars

(***************************************************************************)
(* SpecTree: _stabilize_spec applied to one chart dict, and again to its   *)
(* result.                                                                 *)
(***************************************************************************)
InitTree ==
    /\ chart_dict \in TreeCharts
    /\ given = chart_dict
    /\ passes = <<>>
    /\ IdleText
    /\ IdleCall
    /\ IdleConv
    /\ IdleSerde
    /\ IdlePages

NextTree == StabilizeSpec

SpecTree == InitTree /\ [][NextTree]_vars

(***************************************************************************)
(* Claims about the tree-level pass (SpecTree).                            *)
(***************************************************************************)
GivenParams == given.params

FirstPassParams == passes[1].chart_dict.params

ParamNamesOf(params) == [i \in DOMAIN params |-> params[i].name]

\* C21: the parameters whose name matches param_<digits> are renamed
\* selection_1, selection_2, ... in their order of appearance in params,
\* whatever the number of the original name; every other parameter keeps its
\* name and consumes no counter value.
C21_EncounterOrderRenaming ==
    (Len(passes) >= 1 /\ given.has_params) =>
        /\ Len(FirstPassParams) = Len(GivenParams)
        /\ \A i \in DOMAIN GivenParams :
              FirstPassParams[i].name =
                 IF _ALTAIR_UNNAMED_PARAM_REGEX(GivenParams[i].name)
                 THEN TreeName("selection_",
                               Cardinality({j \in 1..i :
                                   _ALTAIR_UNNAMED_PARAM_REGEX(GivenParams[j].name)}))
                 ELSE GivenParams[i].name

\* param_7, param_2 in that order have become selection_1, selection_2.
C21_Witness ==
    /\ Len(passes) >= 1
    /\ ParamNamesOf(GivenParams) = <<TreeName("param_", 7), TreeName("param_", 2)>>
    /\ ParamNamesOf(FirstPassParams) =
          <<TreeName("selection_", 1), TreeName("selection_", 2)>>

\* A named parameter ahead of an unnamed one has consumed no counter value.
C21_NamedKeptReached ==
    /\ Len(passes) >= 1
    /\ ParamNamesOf(GivenParams) = <<TreeName("brush_", 1), TreeName("param_", 7)>>
    /\ ParamNamesOf(FirstPassParams) =
          <<TreeName("brush_", 1), TreeName("selection_", 1)>>

\* C22: applying _stabilize_spec to the result of _stabilize_spec changes
\* nothing, and the second pass records no entry in stable_ids.
C22_TreeIdempotence ==
    Len(passes) >= 2 =>
        /\ passes[2].chart_dict = passes[1].chart_dict
        /\ passes[2].stable_ids = {}

\* A second pass over a chart dict whose first pass renamed a parameter, a
\* view and a reference to the view.
C22_Witness ==
    /\ Len(passes) >= 2
    /\ passes[1].stable_ids # {}
    /\ ParamNamesOf(FirstPassParams) # ParamNamesOf(GivenParams)
    /\ passes[1].chart_dict.body # given.body

RECURSIVE AllViews(_)
\* The views of all the parameters, in the order the pass meets them.
AllViews(params) ==
    IF params = <<>> THEN <<>>
    ELSE (IF Head(params).has_views THEN Head(params).views ELSE <<>>)
         \o AllViews(Tail(params))

\* C23: the view counter is shared by all the parameters of one call: the
\* j-th view met over all the parameters is named view_j, and two different
\* view identifiers of different parameters never get the same stable name.
C23_SharedViewCounter ==
    (Len(passes) >= 1 /\ given.has_params) =>
        /\ AllViews(FirstPassParams) =
              [j \in 1..Len(AllViews(GivenParams)) |-> TreeName("view_", j)]
        /\ \A i, k \in DOMAIN GivenParams :
              (i # k /\ GivenParams[i].has_views /\ GivenParams[k].has_views) =>
                 \A a \in DOMAIN GivenParams[i].views, b \in DOMAIN GivenParams[k].views :
                    GivenParams[i].views[a] # GivenParams[k].views[b]
                       => FirstPassParams[i].views[a] # FirstPassParams[k].views[b]

\* The names the first pass gave to the identifier old: the new names of the
\* views it renamed from old, and of the auto-named parameters called old.
RenamesOf(old) ==
    {FirstPassParams[i].views[a] :
        <<i, a>> \in {x \in (DOMAIN GivenParams) \X (1..MaxViews) :
                        /\ GivenParams[x[1]].has_views
                        /\ x[2] \in DOMAIN GivenParams[x[1]].views
                        /\ GivenParams[x[1]].views[x[2]] = old
                        /\ FirstPassParams[x[1]].views[x[2]] # old}}
    \cup {FirstPassParams[i].name :
            i \in {x \in DOMAIN GivenParams :
                     /\ GivenParams[x].name = old
                     /\ FirstPassParams[x].name # old}}

\* C24: after the pass every scalar under layer, hconcat, vconcat, encoding
\* or data that was equal to an identifier the pass renamed (a view, or an
\* auto-generated parameter name) is the new name; no other scalar changed.
C24_ConsistentSubstitution ==
    (Len(passes) >= 1 /\ given.has_params) =>
        \A n \in DOMAIN given.body :
            \A m \in DOMAIN given.body[n].refs :
                LET old == given.body[n].refs[m]
                    new == passes[1].chart_dict.body[n].refs[m]
                IN  IF given.body[n].key \in StabilizedKeys /\ RenamesOf(old) # {}
                    THEN new \in RenamesOf(old)
                    ELSE new = old

(***************************************************************************)
(* Claims about the order of the named datasets (SpecChart).               *)
(***************************************************************************)
DatasetSet(p) == {p.datasets[i] : i \in 1..Len(p.datasets)}

\* The two evaluations agree on everything the identity is computed from,
\* the named datasets taken as a set.
SameInputsUpToDatasetOrder ==
    /\ args.key = prev[1].args.key
    /\ proto.spec = prev[1].proto.spec
    /\ proto.data = prev[1].proto.data
    /\ DatasetSet(proto) = DatasetSet(prev[1].proto)
    /\ Len(proto.datasets) = Len(prev[1].proto.datasets)
    /\ args.theme = prev[1].args.theme
    /\ proto.form_id = prev[1].proto.form_id
    /\ args.use_container_width = prev[1].args.use_container_width
    /\ args.page = prev[1].args.page

\* C25: the identity is computed from the sorted dataset names: two calls
\* whose specs carry the same named datasets in a different mapping order,
\* everything else equal, put the same id into their messages.
C25_SortedDatasetNames ==
    (BothHaveId /\ SameInputsUpToDatasetOrder) => proto.id = prev[1].proto.id

(***************************************************************************)
(* Claims about the caller's spec (SpecChart).                             *)
(***************************************************************************)
\* C29: at every point of a chart call, and after it, the caller's spec
\* mapping has the top-level keys and values it had when the call was made:
\* the autosize default and the removal of `datasets` and `data` are applied
\* to a copy, whether the call has keyword arguments or not, succeeds or
\* raises, and takes the spec as `spec` or in the `data` position.
C29_CallerSpecUnaltered == caller_spec = args.mapping

\* A finished call that took its spec in the data position: the dict the
\* call worked on has lost `datasets` and gained `autosize`, the caller's
\* has both as before.
C29_Witness ==
    /\ pc = "done"
    /\ args.mapping_as = "data"
    /\ "datasets" \in DOMAIN caller_spec
    /\ "datasets" \notin DOMAIN spec
    /\ "autosize" \notin DOMAIN caller_spec
    /\ "autosize" \in DOMAIN spec

\* A call that raised after its datasets were extracted.
C29_FailingReached ==
    /\ pc = "raised"
    /\ error = "dataset collision"
    /\ "datasets" \in DOMAIN caller_spec
    /\ "datasets" \notin DOMAIN spec

\* A finished call with keyword arguments.
C29_KwargsReached ==
    /\ pc = "done"
    /\ args.kwargs # EmptyDict
    /\ args.mapping_as = "spec"
    /\ spec # caller_spec

(***************************************************************************)
(* Claims about the identifiers of the message's spec text (SpecChart).    *)
(***************************************************************************)
\* The parameters of the spec whose name has the shape param_<digits>.
AutoNamedParams(s) ==
    IF "params" \in DOMAIN s
    THEN {i \in 1..Len(s["params"]) :
            /\ "name" \in s["params"][i].keys
            /\ s["params"][i].name.pre = "param_"
            /\ s["params"][i].name.digits # <<>>}
    ELSE {}

\* C28: the spec text of the message has been through the tree-level pass:
\* when the spec has n parameters with auto-generated names, the text names
\* them selection_1 .. selection_n and holds no param_<digits> name.
C28_TreePassOnMessagePath ==
    (proto.spec # <<>> /\ AutoNamedParams(spec) # {}) =>
        /\ \A n \in DOMAIN proto.spec :
              ~ (proto.spec[n].pre = "param_" /\ proto.spec[n].digits # <<>>)
        /\ \A k \in 1..Cardinality(AutoNamedParams(spec)) :
              \E n \in DOMAIN proto.spec :
                 proto.spec[n] = [pre |-> "selection_", digits |-> <<k>>]

\* C30: every quoted string of json.dumps(spec), among them the strings of
\* the shape param_<digits> or view_<digits> that the author of the spec
\* wrote, stands unchanged in the spec text of the message.
C30_AuthorStringsUnchanged ==
    proto.spec # <<>> => proto.spec = DumpsSpec(spec)

(***************************************************************************)
(* PagesManager, as pages_manager_test.py uses it: the pages cache         *)
(* (test_pages_cache) and the page a run starts with                        *)
(* (test_get_initial_active_script).                                        *)
(***************************************************************************)
MaxCalls == 4      \* calls made on one PagesManager (SpecPages)

\* A script of the pages directory: the numeric prefix, the separator and
\* the rest of the file name before ".py".
PageFile(number, sep, name) == [number |-> number, sep |-> sep, name |-> name]

\* The files of the test, in the order of their numbers (lines 101-106).
PageFiles ==
    <<PageFile("01", "-", "page"), PageFile("03", "_", "other_page"),
      PageFile("04", " ", "last numbered page")>>

\* The path of a script of the pages directory.
ScriptPath(f) == "pages/" \o f.number \o f.sep \o f.name \o ".py"

\* streamlit.util.calc_md5 of a text, kept apart from the text itself.
calc_md5(text) == "md5:" \o text

\* The page of a script: its hash is the md5 of its path, its name is the
\* file name without the numeric prefix, the separator and ".py".
PageInfo(f) ==
    [page_script_hash |-> calc_md5(ScriptPath(f)), page_name |-> f.name,
     script_path |-> ScriptPath(f)]

MainPage ==
    [page_script_hash |-> calc_md5("streamlit_app.py"),
     page_name |-> "streamlit_app", script_path |-> "streamlit_app.py"]

\* The pages get_pages builds: the main script, then the scripts of the
\* pages directory.
BuiltPages == <<MainPage>> \o [i \in DOMAIN PageFiles |-> PageInfo(PageFiles[i])]

\* A mutant of get_initial_active_script: a hash that names no page falls
\* back to the page name.
ActiveScriptNameFallback(pages, page_script_hash, page_name) ==
    LET byHash == {i \in DOMAIN pages : pages[i].page_script_hash = page_script_hash}
        byName == {i \in DOMAIN pages : pages[i].page_name = page_name}
        first(S) == CHOOSE i \in S : \A j \in S : i <= j
    IN  IF page_script_hash # "" /\ byHash # {}
        THEN <<pages[first(byHash)]>>
        ELSE IF page_name \notin {"None", ""}
             THEN IF byName # {} THEN <<pages[first(byName)]>> ELSE <<>>
             ELSE <<pages[1]>>

\* PagesManager.get_initial_active_script(page_script_hash, page_name) on
\* the pages get_pages gave: <<>> for None, <<page>> for a page.
get_initial_active_script(pages, page_script_hash, page_name) ==
    LET byHash == {i \in DOMAIN pages : pages[i].page_script_hash = page_script_hash}
        byName == {i \in DOMAIN pages : pages[i].page_name = page_name}
        first(S) == CHOOSE i \in S : \A j \in S : i <= j
    IN  IF page_script_hash # ""
        THEN IF byHash # {} THEN <<pages[first(byHash)]>> ELSE <<>>
        ELSE IF page_name \notin {"None", ""}
             THEN IF byName # {} THEN <<pages[first(byName)]>> ELSE <<>>
             ELSE <<pages[1]>>

\* The arguments of get_initial_active_script (lines 113-136, and more).
Queries ==
    [page_script_hash :
        {"", "random_hash"} \cup {BuiltPages[i].page_script_hash : i \in DOMAIN BuiltPages},
     page_name : {"None", "", "page", "other_page", "no_such_page"}]

\* What a call of get_pages does to the cache: the cached object when there
\* is one, else a newly built one, which is cached.
PagesAfterGet == IF _cached_pages # 0 THEN _cached_pages ELSE pages_built + 1

PageCall(op, returned) == [op |-> op, returned |-> returned]

\* A mutant of GetPages: the pages are built on every call.
GetPagesAlwaysBuilds ==
    /\ Len(pages_calls) < MaxCalls
    /\ _cached_pages' = pages_built + 1
    /\ pages_built' = pages_built + 1
    /\ pages_calls' = Append(pages_calls, PageCall("get_pages", pages_built + 1))
    /\ UNCHANGED <<_on_pages_changed, script_query, active_script>>
    /\ UNCHANGED nonPagesVars

\* pages_manager.get_pages() (lines 32, 36, 45).
GetPages ==
    /\ Len(pages_calls) < MaxCalls
    /\ _cached_pages' = PagesAfterGet
    /\ pages_built' = IF _cached_pages # 0 THEN pages_built ELSE pages_built + 1
    /\ pages_calls' = Append(pages_calls, PageCall("get_pages", PagesAfterGet))
    /\ UNCHANGED <<_on_pages_changed, script_query, active_script>>
    /\ UNCHANGED nonPagesVars

\* pages_manager.invalidate_pages_cache() (lines 41-44).
InvalidatePagesCache ==
    /\ Len(pages_calls) < MaxCalls
    /\ _cached_pages' = 0
    /\ _on_pages_changed' = _on_pages_changed + 1
    /\ pages_calls' = Append(pages_calls, PageCall("invalidate_pages_cache", 0))
    /\ UNCHANGED <<pages_built, script_query, active_script>>
    /\ UNCHANGED nonPagesVars

\* pages_manager.get_initial_active_script(hash, name) (lines 116-136): the
\* pages are those of get_pages.
GetInitialActiveScript ==
    /\ Len(pages_calls) < MaxCalls
    /\ active_script = <<>>
    /\ _cached_pages' = PagesAfterGet
    /\ pages_built' = IF _cached_pages # 0 THEN pages_built ELSE pages_built + 1
    /\ pages_calls' = Append(pages_calls, PageCall("get_pages", PagesAfterGet))
    /\ active_script' = <<get_initial_active_script(BuiltPages,
                                                    script_query.page_script_hash,
                                                    script_query.page_name)>>
    /\ UNCHANGED <<_on_pages_changed, script_query>>
    /\ UNCHANGED nonPagesVars

(***************************************************************************)
(* SpecPages: calls on one PagesManager, in any order.                     *)
(***************************************************************************)
InitPages ==
    /\ _cached_pages = 0
    /\ pages_built = 0
    /\ _on_pages_changed = 0
    /\ pages_calls = <<>>
    /\ script_query \in Queries
    /\ active_script = <<>>
    /\ IdleText
    /\ IdleCall
    /\ IdleConv
    /\ IdleSerde
    /\ IdleTree

NextPages == GetPages \/ InvalidatePagesCache \/ GetInitialActiveScript

SpecPages == InitPages /\ [][NextPages]_vars

(***************************************************************************)
(* Claims about PagesManager (SpecPages).                                  *)
(***************************************************************************)
CallsOf(op) == {i \in DOMAIN pages_calls : pages_calls[i].op = op}

InvalidatedBetween(i, j) ==
    \E k \in CallsOf("invalidate_pages_cache") : i < k /\ k < j

\* C26: the cache is empty before the first get_pages; get_pages calls with
\* no invalidation between them return the identical cached object;
\* invalidate_pages_cache empties the cache and sends the pages-changed
\* signal once per invalidation; the first get_pages after an invalidation
\* returns a newly built object, not one returned before.
C26_PagesCacheProtocol ==
    /\ CallsOf("get_pages") = {} => _cached_pages = 0
    /\ \A i, j \in CallsOf("get_pages") :
          i < j => (pages_calls[i].returned = pages_calls[j].returned
                       <=> ~InvalidatedBetween(i, j))
    /\ _on_pages_changed = Cardinality(CallsOf("invalidate_pages_cache"))
    /\ pages_calls # <<>> =>
          IF pages_calls[Len(pages_calls)].op = "invalidate_pages_cache"
          THEN _cached_pages = 0
          ELSE _cached_pages = pages_calls[Len(pages_calls)].returned
                  /\ _cached_pages # 0

\* The calls of test_pages_cache: get_pages twice, an invalidation, and
\* get_pages again.
C26_Witness ==
    /\ Len(pages_calls) = 4
    /\ [i \in 1..4 |-> pages_calls[i].op] =
          <<"get_pages", "get_pages", "invalidate_pages_cache", "get_pages">>
    /\ pages_calls[1].returned = pages_calls[2].returned
    /\ pages_calls[4].returned # pages_calls[1].returned
    /\ _on_pages_changed = 1

\* The scripts of the pages directory whose path has this md5, and those
\* whose file name, without number and separator, is this name.
FilesWithHash(h) == {i \in DOMAIN PageFiles : calc_md5(ScriptPath(PageFiles[i])) = h}

FilesWithName(n) == {i \in DOMAIN PageFiles : PageFiles[i].name = n}

\* C27: with a non-empty hash get_initial_active_script decides by the hash
\* alone: it returns the page of that script hash, and no page when no page
\* has it, whatever the name; only with an empty hash is the page looked up
\* by name, the numeric prefix and the separator of the file name ignored.
C27_InitialActiveScript ==
    active_script # <<>> =>
        LET r == active_script[1]
            h == script_query.page_script_hash
            n == script_query.page_name
        IN  /\ h # "" =>
                  IF h = MainPage.page_script_hash THEN r = <<MainPage>>
                  ELSE IF FilesWithHash(h) # {}
                       THEN /\ r # <<>>
                            /\ \E i \in FilesWithHash(h) :
                                  r[1].script_path = ScriptPath(PageFiles[i])
                       ELSE r = <<>>
            /\ (h = "" /\ FilesWithName(n) # {}) =>
                  /\ r # <<>>
                  /\ \E i \in FilesWithName(n) :
                        r[1].page_script_hash = calc_md5(ScriptPath(PageFiles[i]))

\* A hash no page has, with the name of an existing page: no page.
C27_Witness ==
    /\ active_script = << <<>> >>
    /\ script_query.page_script_hash = "random_hash"
    /\ script_query.page_name = "page"

\* An empty hash and the name other_page: the page of 03_other_page.py.
C27_ByNameReached ==
    /\ active_script # <<>>
    /\ active_script[1] # <<>>
    /\ script_query.page_script_hash = ""
    /\ script_query.page_name = "other_page"
    /\ active_script[1][1].script_path = "pages/03_other_page.py"

=============================================================================
